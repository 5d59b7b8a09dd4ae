-------------------------- MODULE ProcessesProofs --------------------------
(***************************************************************************)
(* Proofs about the process around the adapters (types, the safety of      *)
(* updates, and the closing of every adapter at the end), about syslog and *)
(* stdin (types, the lines in their order, one more read after Close), and *)
(* about sentinelone (types, no event twice, and every event of the        *)
(* windows that were fetched to their end).                                *)
(***************************************************************************)
EXTENDS Processes, FiniteSetTheorems, SequenceTheorems, WellFoundedInduction, TLAPS

-----------------------------------------------------------------------------
(***************************************************************************)
(* The process around the adapters.                                        *)
(***************************************************************************)
Versions == 0 .. MaxUpdates

HasRun(s) == run[<<s, 0>>] # "no"

\* The first adapter of the slot has not been removed from the list.
Fresh(s) == current[s] = 0 /\ updater[s] \in {"no", "sleep", "remove"}

\* An update is under way.
Pending(s) == updater[s] \in {"remove", "close", "wait"}

\* The version of the slot that is not started yet.
ToCome(s, g) == lastEtag[s] < g \/ (lastEtag[s] = g /\ Pending(s))

ConfInv == configs = parseConfigs(conf) /\ kind = [x \in Clients |-> kind[x]]

\* The versions of a slot go up, and only a slot in the cloud has updates.
SlotInv ==
  \A s \in Slots :
    /\ current[s] <= lastEtag[s] /\ (Pending(s) => current[s] < lastEtag[s] /\ lastEtag[s] > 0)
    /\ updater[s] = "wait" => current[s] # None
    /\ updater[s] # "no" => ~conf.service /\ s <= Len(configs) /\ configs[s].Cloud /\ HasRun(s)
    /\ lastEtag[s] = 0 /\ HasRun(s) => current[s] = 0
    /\ ~HasRun(s) => current[s] = None /\ lastEtag[s] = 0 /\ monitor[s] = "no"

\* Only the current adapter of a slot runs; one that stopped was closed or stopped by itself.
RunInv ==
  \A s \in Slots : \A g \in Versions :
    /\ run[<<s, g>>] \in {"running", "closing"} => g = current[s]
    /\ run[<<s, g>>] \in {"closing", "stopped"} => closes[<<s, g>>] > 0 \/ <<s, g>> \in alone
    /\ ToCome(s, g) => run[<<s, g>>] = "no"

\* How far main has come.
MainInv ==
  /\ pc = "start" => pos <= Len(configs) + 1 /\ len < pos /\ \A s \in Slots : HasRun(s) <=> s < pos
  /\ pc \in {"select", "close", "closing"} \/ (pc = "over" /\ why \in {"signal", "stopped"}) =>
       \A s \in 1 .. Len(configs) : HasRun(s)
  /\ pc \in {"start", "select"} => why = "no" /\ ~raced
  /\ pc \in {"close", "closing"} => why \in {"signal", "stopped"} /\ ~conf.service /\ pos <= range + 1
  /\ pc = "closing" => pos <= range
  /\ ctl = "close" => conf.service

\* The list holds the first adapters that were not removed, each once.
ListInv ==
  /\ \A k \in 1 .. len : \E s \in Slots : array[k] = <<s, 0>> /\ Fresh(s)
  /\ \A s \in Slots : Fresh(s) => InList(<<s, 0>>)
  /\ \A j, k \in 1 .. len : array[j] = array[k] => j = k

\* Main closes what is in the list, and an update what it has removed from it or started.
CloseInv ==
  ~conf.service /\ ~raced =>
    /\ pc \in {"start", "select"} => \A k \in 1 .. len : closes[array[k]] = 0
    /\ pc \in {"close", "closing"} =>
         range = len /\ \A k \in 1 .. len : closes[array[k]] = IF k < pos \/ (pc = "closing" /\ k = pos) THEN 1 ELSE 0
    /\ pc = "over" /\ why \in {"signal", "stopped"} => \A k \in 1 .. len : closes[array[k]] = 1
    /\ \A s \in Slots : updater[s] \in {"close", "sleep", "remove"} /\ current[s] # None /\ ~Fresh(s) =>
         closes[<<s, current[s]>>] = 0
    /\ \A s \in Slots : \A g \in Versions : ToCome(s, g) \/ ~HasRun(s) => closes[<<s, g>>] = 0
    /\ \A x \in Clients : closes[x] < 2

\* What main hears of in its select stopped by itself.
AloneInv ==
  /\ pc \in {"start", "select"} /\ ~conf.service => \A s \in Slots : monitor[s] = "send" => <<s, 0>> \in alone
  /\ UpdateIsNoExit

\* The variable method has the type of the configurations in the cloud, once one was started.
KindInv ==
  ~conf.service /\ OneType =>
    \A s \in Slots : s <= Len(configs) /\ configs[s].Cloud =>
      /\ HasRun(s) => method = configs[s].SensorType
      /\ \A g \in Versions : run[<<s, g>>] # "no" => kind[<<s, g>>] = configs[s].SensorType

SupInv == TypeOK /\ ConfInv /\ SlotInv /\ RunInv /\ MainInv /\ ListInv /\ CloseInv /\ AloneInv /\ KindInv

-----------------------------------------------------------------------------
\* The types of the constants.
LEMMA SupConstants ==
  /\ MaxSlots \in Nat /\ MaxUpdates \in Nat
  /\ \A s \in Slots, g \in Versions : <<s, g>> \in Clients
  /\ \A s \in Slots : <<s, 0>> \in Clients /\ s \in Nat /\ s > 0
  /\ 0 \in Versions /\ \A x \in Clients : \E s \in Slots, g \in Versions : x = <<s, g>>
BY SupervisorAssumption DEF Versions, Clients, Slots

\* What the file of a situation says: at most MaxSlots documents.
LEMMA SupConf ==
  ASSUME conf \in Confs
  PROVE /\ parseConfigs(conf) \in Seq(Doc) /\ Len(parseConfigs(conf)) \in 0 .. MaxSlots
        /\ conf.service \in BOOLEAN /\ conf.Updates \in 0 .. MaxUpdates
<1>1. IsConf(conf) /\ Len(parseConfigs(conf)) <= MaxSlots /\ MaxSlots \in Nat BY SupervisorAssumption
<1>2. conf.docs \in Seq(Doc) /\ <<>> \in Seq(Doc) /\ conf.service \in BOOLEAN /\ conf.Updates \in 0 .. MaxUpdates
  BY <1>1 DEF IsConf
<1>3. DecodedJSON(conf) \in Seq(Doc) /\ DecodedYAML(conf) \in Seq(Doc) BY <1>2 DEF DecodedJSON, DecodedYAML
<1>4. parseConfigs(conf) \in Seq(Doc) BY <1>3 DEF parseConfigs
<1>5. QED BY <1>1, <1>2, <1>4

\* The first state.
LEMMA SupInit == Init => SupInv
<1> SUFFICES ASSUME Init PROVE SupInv OBVIOUS
<1> USE SupConstants
<1>c. conf \in Confs /\ configs = parseConfigs(conf) BY DEF Init
<1>f. configs \in Seq(Doc) /\ Len(configs) \in 0 .. MaxSlots /\ (configs = <<>> <=> Len(configs) = 0) BY <1>c, SupConf
<1>s. /\ \A s \in Slots : /\ current[s] = None /\ lastEtag[s] = 0 /\ version[s] = 0 /\ monitor[s] = "no" /\ updater[s] = "no"
                          /\ \A g \in Versions : run[<<s, g>>] = "no" /\ closes[<<s, g>>] = 0
      /\ \A s \in Slots : ~HasRun(s) /\ ~Fresh(s) /\ ~Pending(s)
  <2>1. \A s \in Slots : current[s] = None /\ lastEtag[s] = 0 /\ version[s] = 0 /\ monitor[s] = "no" /\ updater[s] = "no"
    BY DEF Init
  <2>2. \A x \in Clients : run[x] = "no" /\ closes[x] = 0 BY DEF Init
  <2>3. QED BY <2>1, <2>2 DEF HasRun, Fresh, Pending, None
<1>1. TypeOK
  <2>1. array \in [Slots -> Clients] BY DEF Init
  <2>2. current \in [Slots -> None .. MaxUpdates] /\ version \in [Slots -> 0 .. MaxUpdates] /\ lastEtag \in [Slots -> 0 .. MaxUpdates]
    BY DEF Init, None
  <2>3. run \in [Clients -> {"no", "running", "closing", "stopped"}] /\ closes \in [Clients -> 0 .. 2] BY DEF Init
  <2>4. monitor \in [Slots -> {"no", "watch", "send", "done"}] /\ updater \in [Slots -> {"no", "sleep", "remove", "close", "wait"}]
    BY DEF Init
  <2>5. pos \in 1 .. MaxSlots + 1 /\ range \in 0 .. MaxSlots /\ len \in 0 .. MaxSlots /\ ctlPos \in 1 .. MaxSlots + 1
    BY DEF Init
  <2>6. pc \in {"start", "over"} /\ why \in {"no", "config"} /\ ctl = "idle" /\ alone = {} BY DEF Init
  <2>7. raced \in BOOLEAN BY DEF Init
  <2>8. \A s \in Slots : lastEtag[s] <= version[s] BY <1>s
  <2>9. Len(configs) <= MaxSlots BY <1>f
  <2>10. QED BY <1>c, <2>1, <2>2, <2>3, <2>4, <2>5, <2>6, <2>7, <2>8, <2>9 DEF TypeOK
<1>2. ConfInv
  <2>1. kind = [x \in Clients |-> "none"] BY DEF Init
  <2>2. kind = [x \in Clients |-> kind[x]] BY <2>1
  <2>3. QED BY <1>c, <2>2 DEF ConfInv
<1>3. SlotInv BY <1>s DEF SlotInv, None
<1>4. RunInv BY <1>s DEF RunInv
<1>5. MainInv
  <2>1. pos = 1 /\ len = 0 /\ ctl = "idle" /\ raced = FALSE /\ (configs = <<>> => pc = "over" /\ why = "config")
        /\ (configs # <<>> => pc = "start" /\ why = "no")
    BY DEF Init
  <2>2. \A s \in Slots : ~HasRun(s) /\ ~(s < 1) BY <1>s DEF Slots
  <2>3. QED BY <2>1, <2>2, <1>f DEF MainInv
<1>6. ListInv
  <2>1. len = 0 BY DEF Init
  <2>2. QED BY <2>1, <1>s DEF ListInv
<1>7. CloseInv
  <2>1. len = 0 /\ pc \in {"start", "over"} /\ why \in {"no", "config"} BY DEF Init
  <2>2. \A x \in Clients : closes[x] = 0 BY <1>s
  <2>3. QED BY <2>1, <2>2, <1>s DEF CloseInv, None
<1>8. AloneInv
  <2>1. why \in {"no", "config"} BY DEF Init
  <2>2. QED BY <2>1, <1>s DEF AloneInv, UpdateIsNoExit
<1>9. KindInv BY <1>s DEF KindInv
<1>10. QED BY <1>1, <1>2, <1>3, <1>4, <1>5, <1>6, <1>7, <1>8, <1>9 DEF SupInv

\* The types that the proofs of the steps need most.
LEMMA SupTypes ==
  ASSUME SupInv
  PROVE /\ conf \in Confs /\ conf.service \in BOOLEAN /\ Len(configs) \in 0 .. MaxSlots
        /\ pos \in Nat /\ range \in 0 .. MaxSlots /\ len \in 0 .. MaxSlots
        /\ array \in [Slots -> Clients] /\ \A k \in 1 .. len : k \in Slots /\ array[k] \in Clients
        /\ \A s \in Slots : /\ current[s] \in None .. MaxUpdates /\ lastEtag[s] \in 0 .. version[s]
                            /\ version[s] \in Versions /\ lastEtag[s] \in Versions
                            /\ current[s] # None => current[s] \in Versions /\ <<s, current[s]>> \in Clients
        /\ run \in [Clients -> {"no", "running", "closing", "stopped"}] /\ closes \in [Clients -> 0 .. 2]
<1> USE SupConstants
<1>t. TypeOK /\ ConfInv BY DEF SupInv
<1>1. conf \in Confs /\ conf.service \in BOOLEAN /\ Len(configs) \in 0 .. MaxSlots
  <2>1. conf \in Confs /\ configs = parseConfigs(conf) BY <1>t DEF TypeOK, ConfInv
  <2>2. QED BY <2>1, SupConf
<1>2. pos \in Nat /\ range \in 0 .. MaxSlots /\ len \in 0 .. MaxSlots /\ array \in [Slots -> Clients] BY <1>t DEF TypeOK
<1>3. \A k \in 1 .. len : k \in Slots /\ array[k] \in Clients BY <1>2 DEF Slots
<1>4. \A s \in Slots : /\ current[s] \in None .. MaxUpdates /\ lastEtag[s] \in 0 .. version[s] /\ version[s] \in Versions
  BY <1>t DEF TypeOK, Versions
<1>5. \A s \in Slots : lastEtag[s] \in Versions /\ (current[s] # None => current[s] \in Versions) BY <1>4 DEF Versions, None
<1>6. QED BY <1>1, <1>2, <1>3, <1>4, <1>5, <1>t DEF TypeOK

-----------------------------------------------------------------------------
\* Steps of main, of the control handler and of a monitor, which touch neither the slots
\* nor the clients.
LEMMA SupMainOnly ==
  ASSUME SupInv,
         UNCHANGED <<conf, configs, array, len, method, current, lastEtag, updater, version, run, kind, closes, alone, raced>>,
         pc' \in {"start", "select", "close", "closing", "over"}, pos' \in 1 .. MaxSlots + 1, range' \in 0 .. MaxSlots,
         why' \in {"no", "config", "start", "health", "panic", "signal", "stopped", "close"},
         ctl' \in {"idle", "close"}, ctlPos' \in 1 .. MaxSlots + 1,
         monitor' \in [Slots -> {"no", "watch", "send", "done"}],
         \A s \in Slots : monitor[s] = "no" => monitor'[s] = "no",
         MainInv', CloseInv', AloneInv'
  PROVE SupInv'
<1>1. TypeOK' BY DEF SupInv, TypeOK
<1>2. ConfInv' BY DEF SupInv, ConfInv
<1>3. SlotInv' BY DEF SupInv, SlotInv, Pending, HasRun
<1>4. RunInv' BY DEF SupInv, RunInv, ToCome, Pending
<1>5. ListInv' BY DEF SupInv, ListInv, Fresh, InList
<1>6. KindInv' BY DEF SupInv, KindInv, OneType, HasRun
<1>7. QED BY <1>1, <1>2, <1>3, <1>4, <1>5, <1>6 DEF SupInv

\* The process ends, other than by the loop that closes the clients.
LEMMA SupOver ==
  ASSUME SupInv, StartFails \/ HealthFails \/ CloseFails \/ (\E s \in Slots : CloseNil(s) \/ ServiceStopped(s))
  PROVE SupInv'
<1> USE SupConstants
<1>t. TypeOK BY DEF SupInv
<1>u. UNCHANGED <<conf, configs, pos, range, array, len, method, current, lastEtag, updater, version, ctl, ctlPos, run, kind,
                  closes, alone, raced>>
  BY DEF StartFails, HealthFails, CloseFails, CloseNil, ServiceStopped, listVars, slotVars, goVars, clientVars
<1>p. pc' = "over" /\ (why' \in {"start", "health", "close", "panic"} \/ (why' = "stopped" /\ conf.service /\ pc = "select"))
  BY DEF StartFails, HealthFails, CloseFails, CloseNil, ServiceStopped, Over
<1>m. monitor' \in [Slots -> {"no", "watch", "send", "done"}] /\ \A s \in Slots : monitor[s] = "no" => monitor'[s] = "no"
  <2>1. monitor' = monitor \/ \E s \in Slots : monitor[s] = "send" /\ monitor' = [monitor EXCEPT ![s] = "done"]
    BY DEF StartFails, HealthFails, CloseFails, CloseNil, ServiceStopped, goVars
  <2>2. monitor \in [Slots -> {"no", "watch", "send", "done"}] BY <1>t DEF TypeOK
  <2>3. QED BY <2>1, <2>2
<1>1. MainInv' BY <1>u, <1>p DEF SupInv, MainInv, HasRun
<1>2. CloseInv' BY <1>u, <1>p DEF SupInv, CloseInv, Fresh, ToCome, Pending, HasRun
<1>3. AloneInv' BY <1>u, <1>p DEF SupInv, AloneInv, UpdateIsNoExit
<1>4. QED BY <1>u, <1>p, <1>m, <1>1, <1>2, <1>3, <1>t, SupMainOnly DEF TypeOK

\* The loop that starts the adapters is over.
LEMMA SupStarted == ASSUME SupInv, Started PROVE SupInv'
<1> USE SupConstants
<1>t. TypeOK BY DEF SupInv
<1>u. UNCHANGED <<conf, configs, pos, range, array, len, method, current, lastEtag, monitor, updater, version, ctl, ctlPos,
                  run, kind, closes, alone, why, raced>>
  BY DEF Started, listVars, slotVars, goVars, clientVars
<1>p. pc = "start" /\ pc' = "select" /\ pos > Len(configs) BY DEF Started
<1>1. MainInv'
  <2>1. \A s \in 1 .. Len(configs) : s \in Slots /\ s < pos BY <1>p, SupTypes DEF Slots
  <2>2. \A s \in 1 .. Len(configs) : HasRun(s) BY <2>1, <1>p DEF SupInv, MainInv
  <2>3. QED BY <2>2, <1>u, <1>p DEF SupInv, MainInv, HasRun
<1>2. CloseInv' BY <1>u, <1>p DEF SupInv, CloseInv, Fresh, ToCome, Pending, HasRun
<1>3. AloneInv' BY <1>u, <1>p DEF SupInv, AloneInv, UpdateIsNoExit
<1>4. QED BY <1>u, <1>p, <1>1, <1>2, <1>3, <1>t, SupMainOnly DEF TypeOK

\* Main leaves its select: nothing of the list has been closed so far, and if it was an
\* adapter that stopped, it stopped by itself.
LEMMA SupLeavesSelect == ASSUME SupInv, Signal \/ \E s \in Slots : ReceiveRunnings(s) PROVE SupInv'
<1> USE SupConstants
<1>t. TypeOK BY DEF SupInv
<1>u. UNCHANGED <<conf, configs, array, len, method, current, lastEtag, updater, version, ctl, ctlPos, run, kind, closes,
                  alone, raced>>
  BY DEF Signal, ReceiveRunnings, listVars, slotVars, goVars, clientVars
<1>p. /\ pc = "select" /\ ~conf.service /\ pc' = "close" /\ pos' = 1 /\ range' = len
      /\ why' = "signal" \/ (why' = "stopped" /\ \E s \in Slots : monitor[s] = "send")
  BY DEF Signal, ReceiveRunnings
<1>m. monitor' \in [Slots -> {"no", "watch", "send", "done"}] /\ \A s \in Slots : monitor[s] = "no" => monitor'[s] = "no"
  <2>1. monitor' = monitor \/ \E s \in Slots : monitor[s] = "send" /\ monitor' = [monitor EXCEPT ![s] = "done"]
    BY DEF Signal, ReceiveRunnings, goVars
  <2>2. monitor \in [Slots -> {"no", "watch", "send", "done"}] BY <1>t DEF TypeOK
  <2>3. QED BY <2>1, <2>2
<1>l. len \in 0 .. MaxSlots /\ len \in Nat BY <1>t DEF TypeOK
<1>1. MainInv' BY <1>u, <1>p, <1>l DEF SupInv, MainInv, HasRun
<1>2. CloseInv'
  <2>1. \A k \in 1 .. len : ~(k < pos') BY <1>p, <1>l
  <2>2. QED BY <2>1, <1>u, <1>p DEF SupInv, CloseInv, Fresh, ToCome, Pending, HasRun
<1>3. AloneInv' BY <1>u, <1>p DEF SupInv, AloneInv, UpdateIsNoExit
<1>4. QED BY <1>u, <1>p, <1>m, <1>l, <1>1, <1>2, <1>3, <1>t, SupMainOnly DEF TypeOK

\* The loop that closes the clients goes on, and ends when all of the list were closed.
LEMMA SupLoop == ASSUME SupInv, CloseReturns \/ Exit PROVE SupInv'
<1> USE SupConstants
<1>t. TypeOK BY DEF SupInv
<1>u. UNCHANGED <<conf, configs, range, array, len, method, current, lastEtag, monitor, updater, version, ctl, ctlPos, run,
                  kind, closes, alone, why, raced>>
  BY DEF CloseReturns, Exit, listVars, slotVars, goVars, clientVars
<1>p. \/ pc = "closing" /\ pc' = "close" /\ pos' = pos + 1
      \/ pc = "close" /\ pos > range /\ pc' = "over" /\ pos' = pos
  BY DEF CloseReturns, Exit
<1>i. pos \in 1 .. MaxSlots + 1 /\ range \in 0 .. MaxSlots /\ len \in 0 .. MaxSlots BY <1>t DEF TypeOK
<1>m. (pc = "closing" => pos <= range) /\ why \in {"signal", "stopped"} BY <1>p DEF SupInv, MainInv
<1>1. MainInv' BY <1>u, <1>p, <1>i, <1>m DEF SupInv, MainInv, HasRun
<1>2. CloseInv'
  <2> SUFFICES ASSUME ~conf.service, ~raced
               PROVE /\ pc' = "close" => range = len /\ \A k \in 1 .. len : closes[array[k]] = IF k < pos' THEN 1 ELSE 0
                     /\ pc' = "over" => \A k \in 1 .. len : closes[array[k]] = 1
    BY <1>u, <1>p DEF SupInv, CloseInv, Fresh, ToCome, Pending, HasRun
  <2>1. range = len /\ \A k \in 1 .. len : closes[array[k]] = IF k < pos \/ (pc = "closing" /\ k = pos) THEN 1 ELSE 0
    BY <1>p DEF SupInv, CloseInv
  <2>2. CASE pc = "closing"
    <3>1. \A k \in 1 .. len : (k < pos \/ k = pos) <=> k < pos + 1 BY <1>i
    <3>2. QED BY <3>1, <2>1, <2>2, <1>p
  <2>3. CASE pc = "close" /\ pos > range
    <3>1. \A k \in 1 .. len : k < pos BY <2>1, <2>3, <1>i
    <3>2. QED BY <3>1, <2>1, <2>3, <1>p
  <2>4. QED BY <2>2, <2>3, <1>p
<1>3. AloneInv' BY <1>u, <1>p DEF SupInv, AloneInv, UpdateIsNoExit
<1>4. pos' \in 1 .. MaxSlots + 1 BY <1>p, <1>i, <1>m
<1>5. QED BY <1>u, <1>p, <1>1, <1>2, <1>3, <1>4, <1>t, SupMainOnly DEF TypeOK

\* A monitor wakes up: an adapter of the list that stopped, before main closes any, was
\* not closed and so stopped by itself.
LEMMA SupMonitor == ASSUME SupInv, NEW s \in Slots, MonitorWakes(s) PROVE SupInv'
<1> USE SupConstants
<1>t. TypeOK BY DEF SupInv
<1>u. UNCHANGED <<conf, configs, pc, pos, range, array, len, method, current, lastEtag, updater, version, ctl, ctlPos, run,
                  kind, closes, alone, why, raced>>
  BY DEF MonitorWakes, mainVars, listVars, slotVars, clientVars
<1>p. monitor[s] = "watch" /\ run[<<s, 0>>] = "stopped" /\ monitor' = [monitor EXCEPT ![s] = IsFound(s)] BY DEF MonitorWakes
<1>f. IsFound(s) \in {"send", "done"} BY DEF IsFound
<1>m. /\ monitor' \in [Slots -> {"no", "watch", "send", "done"}] /\ \A q \in Slots : monitor[q] = "no" => monitor'[q] = "no"
      /\ monitor'[s] = IsFound(s) /\ \A q \in Slots : q # s => monitor'[q] = monitor[q]
  <2>1. monitor \in [Slots -> {"no", "watch", "send", "done"}] BY <1>t DEF TypeOK
  <2>2. QED BY <2>1, <1>p, <1>f
<1>1. MainInv' BY <1>u DEF SupInv, MainInv, HasRun
<1>2. CloseInv' BY <1>u DEF SupInv, CloseInv, Fresh, ToCome, Pending, HasRun
<1>3. AloneInv'
  <2> SUFFICES ASSUME pc \in {"start", "select"}, ~conf.service, IsFound(s) = "send" PROVE <<s, 0>> \in alone
    BY <1>u, <1>m DEF SupInv, AloneInv, UpdateIsNoExit
  <2>1. PICK k \in 1 .. len : array[k] = <<s, current[s]>> BY DEF IsFound, InList
  <2>2. PICK q \in Slots : array[k] = <<q, 0>> BY <2>1 DEF SupInv, ListInv
  <2>3. array[k] = <<s, 0>> BY <2>1, <2>2
  <2>4. ~raced BY DEF SupInv, MainInv
  <2>5. closes[<<s, 0>>] = 0 BY <2>1, <2>3, <2>4 DEF SupInv, CloseInv
  <2>6. QED BY <2>5, <1>p DEF SupInv, RunInv
<1>4. QED BY <1>u, <1>m, <1>1, <1>2, <1>3, <1>t, SupMainOnly DEF TypeOK

\* A control request of the service.
LEMMA SupControlStop == ASSUME SupInv, ControlStop \/ Gone \/ UNCHANGED vars PROVE SupInv'
<1> USE SupConstants
<1>t. TypeOK BY DEF SupInv
<1>u. UNCHANGED <<conf, configs, pc, pos, range, array, len, method, current, lastEtag, monitor, updater, version, ctlPos, run,
                  kind, closes, alone, why, raced>>
  BY DEF ControlStop, Gone, vars, mainVars, listVars, slotVars, goVars, clientVars
<1>p. ctl' \in {"idle", "close"} /\ (ctl' = ctl \/ conf.service) BY <1>t DEF ControlStop, Gone, vars, goVars, TypeOK
<1>1. MainInv' BY <1>u, <1>p DEF SupInv, MainInv, HasRun
<1>2. CloseInv' BY <1>u DEF SupInv, CloseInv, Fresh, ToCome, Pending, HasRun
<1>3. AloneInv' BY <1>u DEF SupInv, AloneInv, UpdateIsNoExit
<1>4. QED BY <1>u, <1>p, <1>1, <1>2, <1>3, <1>t, SupMainOnly DEF TypeOK

-----------------------------------------------------------------------------
\* An adapter stops, because it was closed or by itself.
LEMMA SupAdapter == ASSUME SupInv, NEW x \in Clients, AdapterStops(x) \/ AdapterEnds(x) PROVE SupInv'
<1> USE SupConstants
<1>t. TypeOK BY DEF SupInv
<1>u. UNCHANGED <<conf, configs, pc, pos, range, array, len, method, current, lastEtag, monitor, updater, version, ctl, ctlPos,
                  kind, closes, why, raced>>
  BY DEF AdapterStops, AdapterEnds, mainVars, listVars, slotVars, goVars
<1>p. /\ run' = [run EXCEPT ![x] = "stopped"]
      /\ (run[x] = "closing" /\ alone' = alone) \/ (run[x] = "running" /\ alone' = alone \union {x})
  BY DEF AdapterStops, AdapterEnds
<1>r. /\ run' \in [Clients -> {"no", "running", "closing", "stopped"}] /\ run[x] # "no"
      /\ run'[x] = "stopped" /\ \A y \in Clients : y # x => run'[y] = run[y]
  <2>1. run \in [Clients -> {"no", "running", "closing", "stopped"}] BY SupTypes
  <2>2. QED BY <2>1, <1>p
<1>a. alone \subseteq alone' /\ alone' \subseteq Clients BY <1>p, <1>t DEF TypeOK
<1>h. \A s \in Slots : HasRun(s)' <=> HasRun(s) BY <1>r DEF HasRun
<1>n. \A y \in Clients : run'[y] = "no" <=> run[y] = "no" BY <1>r
<1>1. TypeOK' BY <1>u, <1>r, <1>a, <1>t DEF TypeOK
<1>2. ConfInv' BY <1>u DEF SupInv, ConfInv
<1>3. SlotInv' BY <1>u, <1>h DEF SupInv, SlotInv, Pending
<1>4. RunInv'
  <2> SUFFICES ASSUME NEW s \in Slots, NEW g \in Versions
               PROVE /\ run'[<<s, g>>] \in {"running", "closing"} => g = current[s]
                     /\ run'[<<s, g>>] \in {"closing", "stopped"} => closes[<<s, g>>] > 0 \/ <<s, g>> \in alone'
                     /\ ToCome(s, g) => run'[<<s, g>>] = "no"
    BY <1>u DEF RunInv, ToCome, Pending
  <2>1. <<s, g>> \in Clients OBVIOUS
  <2>2. /\ run[<<s, g>>] \in {"running", "closing"} => g = current[s]
        /\ run[<<s, g>>] \in {"closing", "stopped"} => closes[<<s, g>>] > 0 \/ <<s, g>> \in alone
        /\ ToCome(s, g) => run[<<s, g>>] = "no"
    BY DEF SupInv, RunInv
  <2>3. CASE <<s, g>> # x BY <2>1, <2>2, <2>3, <1>r, <1>a
  <2>4. CASE <<s, g>> = x BY <2>2, <2>4, <1>r, <1>p
  <2>5. QED BY <2>3, <2>4
<1>5. MainInv'
  <2>1. \A s \in 1 .. Len(configs) : s \in Slots BY SupTypes DEF Slots
  <2>2. QED BY <2>1, <1>u, <1>h DEF SupInv, MainInv
<1>6. ListInv' BY <1>u DEF SupInv, ListInv, Fresh, InList
<1>7. CloseInv' BY <1>u, <1>h DEF SupInv, CloseInv, Fresh, ToCome, Pending
<1>8. AloneInv' BY <1>u, <1>a DEF SupInv, AloneInv, UpdateIsNoExit
<1>9. KindInv' BY <1>u, <1>h, <1>n DEF SupInv, KindInv, OneType
<1>10. QED BY <1>1, <1>2, <1>3, <1>4, <1>5, <1>6, <1>7, <1>8, <1>9 DEF SupInv

\* What Close() does to the histories of the clients.
LEMMA SupCallClose ==
  ASSUME SupInv, NEW x \in Clients, CallClose(x)
  PROVE /\ run' \in [Clients -> {"no", "running", "closing", "stopped"}] /\ closes' \in [Clients -> 0 .. 2]
        /\ UNCHANGED <<kind, alone>>
        /\ \A y \in Clients : (run'[y] = "no" <=> run[y] = "no")
        /\ \A y \in Clients : run'[y] \in {"running", "closing"} => run[y] \in {"running", "closing"}
        /\ \A y \in Clients : run'[y] \in {"closing", "stopped"} => closes'[y] > 0 \/ run[y] \in {"closing", "stopped"}
        /\ closes[x] = 0 => closes'[x] = 1
        /\ \A y \in Clients : closes[y] > 0 => closes'[y] > 0
        /\ \A y \in Clients : y # x => closes'[y] = closes[y]
        /\ \A s \in Slots : HasRun(s)' <=> HasRun(s)
<1> USE SupConstants
<1>1. run \in [Clients -> {"no", "running", "closing", "stopped"}] /\ closes \in [Clients -> 0 .. 2] BY SupTypes
<1>2. /\ closes' = [closes EXCEPT ![x] = IF @ = 2 THEN 2 ELSE @ + 1]
      /\ run' = [run EXCEPT ![x] = IF @ = "running" THEN "closing" ELSE @]
      /\ UNCHANGED <<kind, alone>>
  BY DEF CallClose
<1>3. closes' \in [Clients -> 0 .. 2] /\ closes'[x] > 0 /\ (closes[x] = 0 => closes'[x] = 1)
      /\ \A y \in Clients : y # x => closes'[y] = closes[y]
  BY <1>1, <1>2
<1>4. /\ run' \in [Clients -> {"no", "running", "closing", "stopped"}]
      /\ run'[x] = IF run[x] = "running" THEN "closing" ELSE run[x]
      /\ \A y \in Clients : y # x => run'[y] = run[y]
  BY <1>1, <1>2
<1>5. \A y \in Clients : /\ run'[y] = "no" <=> run[y] = "no"
                         /\ run'[y] \in {"running", "closing"} => run[y] \in {"running", "closing"}
                         /\ run'[y] \in {"closing", "stopped"} => closes'[y] > 0 \/ run[y] \in {"closing", "stopped"}
  BY <1>3, <1>4
<1>6. \A s \in Slots : HasRun(s)' <=> HasRun(s) BY <1>5 DEF HasRun
<1>7. \A y \in Clients : closes[y] > 0 => closes'[y] > 0 BY <1>3
<1>8. QED BY <1>2, <1>3, <1>4, <1>5, <1>6, <1>7

\* A client is closed: what remains to be shown is who may close it.
LEMMA SupCloses ==
  ASSUME SupInv, NEW x \in Clients, CallClose(x),
         UNCHANGED <<conf, configs, pos, range, array, len, method, current, lastEtag, monitor, version, ctl, why, raced>>,
         ctlPos' \in 1 .. MaxSlots + 1,
         \/ updater' = updater /\ pc' = pc
         \/ updater' = updater /\ pc = "close" /\ pos <= range /\ pc' = "closing"
         \/ /\ pc' = pc
            /\ \E s \in Slots : updater[s] = "close" /\ current[s] # None /\ updater' = [updater EXCEPT ![s] = "wait"],
         CloseInv'
  PROVE SupInv'
<1> USE SupConstants
<1>t. TypeOK BY DEF SupInv
<1>c. /\ run' \in [Clients -> {"no", "running", "closing", "stopped"}] /\ closes' \in [Clients -> 0 .. 2]
      /\ UNCHANGED <<kind, alone>>
      /\ \A y \in Clients : (run'[y] = "no" <=> run[y] = "no")
      /\ \A y \in Clients : run'[y] \in {"running", "closing"} => run[y] \in {"running", "closing"}
      /\ \A y \in Clients : run'[y] \in {"closing", "stopped"} => closes'[y] > 0 \/ run[y] \in {"closing", "stopped"}
      /\ \A y \in Clients : closes[y] > 0 => closes'[y] > 0
      /\ \A s \in Slots : HasRun(s)' <=> HasRun(s)
  BY SupCallClose
<1>p. /\ updater' \in [Slots -> {"no", "sleep", "remove", "close", "wait"}]
      /\ \A s \in Slots : /\ Pending(s)' <=> Pending(s)
                          /\ Fresh(s)' <=> Fresh(s)
                          /\ updater'[s] = "no" <=> updater[s] = "no"
                          /\ updater'[s] = "wait" => updater[s] = "wait" \/ current[s] # None
  <2>1. updater \in [Slots -> {"no", "sleep", "remove", "close", "wait"}] BY <1>t DEF TypeOK
  <2>2. CASE updater' = updater BY <2>1, <2>2 DEF Pending, Fresh
  <2>3. ASSUME NEW s \in Slots, updater[s] = "close", current[s] # None, updater' = [updater EXCEPT ![s] = "wait"]
        PROVE <1>p!:
    <3>1. updater' \in [Slots -> {"no", "sleep", "remove", "close", "wait"}] /\ updater'[s] = "wait"
          /\ \A q \in Slots : q # s => updater'[q] = updater[q]
      BY <2>1, <2>3
    <3>2. QED BY <3>1, <2>3 DEF Pending, Fresh
  <2>4. QED BY <2>2, <2>3
<1>q. \A s \in Slots, g \in Versions : ToCome(s, g)' <=> ToCome(s, g) BY <1>p DEF ToCome
<1>1. TypeOK' BY <1>c, <1>p, <1>t DEF TypeOK
<1>2. ConfInv' BY <1>c DEF SupInv, ConfInv
<1>3. SlotInv' BY <1>c, <1>p DEF SupInv, SlotInv
<1>4. RunInv' BY <1>c, <1>q DEF SupInv, RunInv
<1>5. MainInv'
  <2>1. \A s \in 1 .. Len(configs) : s \in Slots BY SupTypes DEF Slots
  <2>2. QED BY <2>1, <1>c DEF SupInv, MainInv
<1>6. ListInv' BY <1>p DEF SupInv, ListInv, InList
<1>7. AloneInv' BY <1>c DEF SupInv, AloneInv, UpdateIsNoExit
<1>8. KindInv' BY <1>c DEF SupInv, KindInv, OneType
<1>9. QED BY <1>1, <1>2, <1>3, <1>4, <1>5, <1>6, <1>7, <1>8 DEF SupInv

\* Main closes the next client of the list: nobody has closed it before, and no update has
\* it in its hands.
LEMMA SupCloseNext == ASSUME SupInv, CloseNext PROVE SupInv'
<1> USE SupConstants
<1>t. TypeOK BY DEF SupInv
<1>u. UNCHANGED <<conf, configs, pos, range, array, len, method, current, lastEtag, monitor, updater, version, ctl, ctlPos,
                  why, raced>>
  BY DEF CloseNext, listVars, slotVars, goVars
<1>p. pc = "close" /\ pos <= range /\ pc' = "closing" /\ CallClose(array[pos]) BY DEF CloseNext
<1>i. pos \in 1 .. MaxSlots + 1 /\ range \in 0 .. MaxSlots /\ pos \in Slots /\ len \in 0 .. MaxSlots
  BY <1>p, <1>t DEF TypeOK, Slots
<1>x. array[pos] \in Clients BY <1>i, SupTypes
<1>c. /\ closes[array[pos]] = 0 => closes'[array[pos]] = 1
      /\ \A y \in Clients : y # array[pos] => closes'[y] = closes[y]
      /\ \A s \in Slots : HasRun(s)' <=> HasRun(s)
  BY <1>p, <1>x, SupCallClose
<1>1. CloseInv'
  <2> SUFFICES ASSUME ~conf.service, ~raced PROVE CloseInv' BY <1>u DEF CloseInv
  <2>o. CloseInv /\ ListInv /\ SlotInv BY DEF SupInv
  <2>1. range = len /\ \A k \in 1 .. len : closes[array[k]] = IF k < pos THEN 1 ELSE 0 BY <1>p, <2>o DEF CloseInv
  <2>k. pos \in 1 .. len BY <2>1, <1>p, <1>i
  <2>2. closes[array[pos]] = 0 /\ closes'[array[pos]] = 1 BY <2>1, <2>k, <1>c, <1>i
  <2>3. PICK t \in Slots : array[pos] = <<t, 0>> /\ Fresh(t) BY <2>k, <2>o DEF ListInv
  <2>4. \A k \in 1 .. len : closes'[array[k]] = IF k < pos \/ k = pos THEN 1 ELSE 0
    <3> TAKE k \in 1 .. len
    <3>1. CASE k = pos BY <3>1, <2>2
    <3>2. CASE k # pos
      <4>1. array[k] # array[pos] BY <3>2, <2>k, <2>o DEF ListInv
      <4>2. array[k] \in Clients BY SupTypes
      <4>3. QED BY <4>1, <4>2, <3>2, <2>1, <1>c
    <3>3. QED BY <3>1, <3>2
  <2>5. \A s \in Slots : updater[s] \in {"close", "sleep", "remove"} /\ current[s] # None /\ ~Fresh(s) =>
          closes'[<<s, current[s]>>] = 0
    <3> SUFFICES ASSUME NEW s \in Slots, updater[s] \in {"close", "sleep", "remove"}, current[s] # None, ~Fresh(s)
                 PROVE closes'[<<s, current[s]>>] = 0
      OBVIOUS
    <3>1. closes[<<s, current[s]>>] = 0 BY <2>o DEF CloseInv
    <3>2. <<s, current[s]>> # array[pos]
      <4> SUFFICES ASSUME <<s, current[s]>> = <<t, 0>> PROVE FALSE BY <2>3
      <4>1. s = t OBVIOUS
      <4>2. QED BY <4>1, <2>3
    <3>3. <<s, current[s]>> \in Clients BY SupTypes
    <3>4. QED BY <3>1, <3>2, <3>3, <1>c
  <2>6. \A s \in Slots : \A g \in Versions : ToCome(s, g) \/ ~HasRun(s) => closes'[<<s, g>>] = 0
    <3> SUFFICES ASSUME NEW s \in Slots, NEW g \in Versions, ToCome(s, g) \/ ~HasRun(s) PROVE closes'[<<s, g>>] = 0
      OBVIOUS
    <3>1. closes[<<s, g>>] = 0 BY <2>o DEF CloseInv
    <3>2. <<s, g>> # array[pos]
      <4> SUFFICES ASSUME <<s, g>> = <<t, 0>> PROVE FALSE BY <2>3
      <4>1. s = t /\ g = 0 /\ current[s] = 0 BY <2>3 DEF Fresh
      <4>2. current[s] # None BY <4>1 DEF None
      <4>3. HasRun(s) BY <4>2, <2>o DEF SlotInv
      <4>4. lastEtag[s] \in Versions BY SupTypes
      <4>5. lastEtag[s] >= 0 /\ lastEtag[s] \in Int BY <4>4 DEF Versions
      <4>6. Pending(s) => current[s] < lastEtag[s] BY <2>o DEF SlotInv
      <4>7. QED BY <4>1, <4>3, <4>5, <4>6 DEF ToCome
    <3>3. <<s, g>> \in Clients OBVIOUS
    <3>4. QED BY <3>1, <3>2, <3>3, <1>c
  <2>7. \A y \in Clients : closes'[y] < 2
    <3> TAKE y \in Clients
    <3>1. CASE y = array[pos] BY <3>1, <2>2
    <3>2. CASE y # array[pos] BY <3>2, <1>c, <2>o DEF CloseInv
    <3>3. QED BY <3>1, <3>2
  <2>8. /\ \A s \in Slots : Fresh(s)' <=> Fresh(s)
        /\ \A s \in Slots, g \in Versions : ToCome(s, g)' <=> ToCome(s, g)
    BY <1>u DEF Fresh, ToCome, Pending
  <2>9. QED BY <2>1, <2>4, <2>5, <2>6, <2>7, <2>8, <1>u, <1>p, <1>c DEF CloseInv
<1>2. ctlPos' \in 1 .. MaxSlots + 1 BY <1>u, <1>t DEF TypeOK
<1>3. QED BY <1>u, <1>p, <1>x, <1>1, <1>2, SupCloses

\* The control handler of the service closes the clients.
LEMMA SupControlClose == ASSUME SupInv, ControlClose PROVE SupInv'
<1> USE SupConstants
<1>t. TypeOK BY DEF SupInv
<1>u. UNCHANGED <<conf, configs, pc, pos, range, array, len, method, current, lastEtag, monitor, updater, version, ctl, why,
                  raced>>
  BY DEF ControlClose, mainVars, listVars, slotVars
<1>p. ctl = "close" /\ ctlPos <= len /\ CallClose(array[ctlPos]) /\ ctlPos' = ctlPos + 1 BY DEF ControlClose
<1>i. ctlPos \in Slots /\ ctlPos' \in 1 .. MaxSlots + 1 BY <1>p, <1>t DEF TypeOK, Slots
<1>x. array[ctlPos] \in Clients BY <1>i, SupTypes
<1>s. conf.service BY <1>p DEF SupInv, MainInv
<1>1. CloseInv' BY <1>s, <1>u DEF CloseInv
<1>2. QED BY <1>u, <1>p, <1>i, <1>x, <1>1, SupCloses

\* An update closes the adapter that it has removed from the list, or started.
LEMMA SupCloseClient == ASSUME SupInv, NEW s \in Slots, CloseClient(s) PROVE SupInv'
<1> USE SupConstants
<1>t. TypeOK BY DEF SupInv
<1>u. UNCHANGED <<conf, configs, pc, pos, range, array, len, method, current, lastEtag, monitor, version, ctl, ctlPos, why,
                  raced>>
  BY DEF CloseClient, mainVars, listVars, slotVars
<1>p. updater[s] = "close" /\ current[s] # None /\ CallClose(<<s, current[s]>>) /\ updater' = [updater EXCEPT ![s] = "wait"]
  BY DEF CloseClient
<1>x. <<s, current[s]>> \in Clients /\ current[s] \in Versions BY <1>p, SupTypes
<1>c. /\ closes[<<s, current[s]>>] = 0 => closes'[<<s, current[s]>>] = 1
      /\ \A y \in Clients : y # <<s, current[s]>> => closes'[y] = closes[y]
      /\ \A q \in Slots : HasRun(q)' <=> HasRun(q)
  BY <1>p, <1>x, SupCallClose
<1>v. /\ updater \in [Slots -> {"no", "sleep", "remove", "close", "wait"}] /\ updater'[s] = "wait"
      /\ \A q \in Slots : q # s => updater'[q] = updater[q]
  <2>1. updater \in [Slots -> {"no", "sleep", "remove", "close", "wait"}] BY <1>t DEF TypeOK
  <2>2. QED BY <2>1, <1>p
<1>1. CloseInv'
  <2> SUFFICES ASSUME ~conf.service, ~raced PROVE CloseInv' BY <1>u DEF CloseInv
  <2>o. CloseInv /\ ListInv /\ SlotInv BY DEF SupInv
  <2>f. \A q \in Slots : Fresh(q)' <=> Fresh(q) BY <1>v, <1>u, <1>p DEF Fresh
  <2>g. \A q \in Slots, g \in Versions : ToCome(q, g)' <=> ToCome(q, g) BY <1>v, <1>u, <1>p DEF ToCome, Pending
  <2>n. ~Fresh(s) BY <1>p DEF Fresh
  <2>1. \A k \in 1 .. len : closes'[array[k]] = closes[array[k]]
    <3> TAKE k \in 1 .. len
    <3>1. PICK t \in Slots : array[k] = <<t, 0>> /\ Fresh(t) BY <2>o DEF ListInv
    <3>2. t # s BY <3>1, <2>n
    <3>3. array[k] # <<s, current[s]>> BY <3>1, <3>2
    <3>4. array[k] \in Clients BY SupTypes
    <3>5. QED BY <3>3, <3>4, <1>c
  <2>2. \A q \in Slots : updater'[q] \in {"close", "sleep", "remove"} /\ current[q] # None /\ ~Fresh(q) =>
          closes'[<<q, current[q]>>] = 0
    <3> SUFFICES ASSUME NEW q \in Slots, updater'[q] \in {"close", "sleep", "remove"}, current[q] # None, ~Fresh(q)
                 PROVE closes'[<<q, current[q]>>] = 0
      OBVIOUS
    <3>1. q # s BY <1>v
    <3>2. closes[<<q, current[q]>>] = 0 BY <3>1, <1>v, <2>o DEF CloseInv
    <3>3. <<q, current[q]>> \in Clients /\ <<q, current[q]>> # <<s, current[s]>> BY <3>1, SupTypes
    <3>4. QED BY <3>2, <3>3, <1>c
  <2>3. \A q \in Slots : \A g \in Versions : ToCome(q, g) \/ ~HasRun(q) => closes'[<<q, g>>] = 0
    <3> SUFFICES ASSUME NEW q \in Slots, NEW g \in Versions, ToCome(q, g) \/ ~HasRun(q) PROVE closes'[<<q, g>>] = 0
      OBVIOUS
    <3>1. closes[<<q, g>>] = 0 BY <2>o DEF CloseInv
    <3>2. <<q, g>> # <<s, current[s]>>
      <4> SUFFICES ASSUME q = s, g = current[s] PROVE FALSE OBVIOUS
      <4>1. HasRun(s) BY <1>p, <2>o DEF SlotInv
      <4>2. current[s] < lastEtag[s] BY <1>p, <2>o DEF SlotInv, Pending
      <4>3. lastEtag[s] \in Int /\ current[s] \in Int BY <1>x, SupTypes DEF Versions
      <4>4. QED BY <4>1, <4>2, <4>3 DEF ToCome
    <3>3. QED BY <3>1, <3>2, <1>c
  <2>4. \A y \in Clients : closes'[y] < 2
    <3>1. closes[<<s, current[s]>>] = 0 BY <1>p, <2>n, <2>o DEF CloseInv
    <3>2. closes'[<<s, current[s]>>] = 1 BY <3>1, <1>c
    <3> TAKE y \in Clients
    <3>3. CASE y = <<s, current[s]>> BY <3>2, <3>3
    <3>4. CASE y # <<s, current[s]>> BY <3>4, <1>c, <2>o DEF CloseInv
    <3>5. QED BY <3>3, <3>4
  <2>5. QED BY <2>1, <2>2, <2>3, <2>4, <2>f, <2>g, <2>o, <1>u, <1>c DEF CloseInv
<1>2. ctlPos' \in 1 .. MaxSlots + 1 BY <1>u, <1>t DEF TypeOK
<1>3. QED BY <1>u, <1>p, <1>x, <1>1, <1>2, SupCloses

-----------------------------------------------------------------------------
\* A configuration changes, and the goroutine of the slot sees it: the version it is about
\* to start is a new one.
LEMMA SupVersion == ASSUME SupInv, NEW s \in Slots, NewVersion(s) \/ GetPublicByGUID(s) PROVE SupInv'
<1> USE SupConstants
<1>t. TypeOK BY DEF SupInv
<1>u. UNCHANGED <<conf, configs, pc, pos, range, array, len, method, current, monitor, ctl, ctlPos, run, kind, closes, alone,
                  why, raced>>
  BY DEF NewVersion, GetPublicByGUID, mainVars, listVars, slotVars, goVars, clientVars
<1>i. /\ version \in [Slots -> 0 .. MaxUpdates] /\ lastEtag \in [Slots -> 0 .. MaxUpdates]
      /\ updater \in [Slots -> {"no", "sleep", "remove", "close", "wait"}] /\ \A q \in Slots : lastEtag[q] <= version[q]
  BY <1>t DEF TypeOK
<1>n. \A q \in Slots : lastEtag[q] \in Nat /\ current[q] \in Int
  <2>1. current \in [Slots -> None .. MaxUpdates] BY <1>t DEF TypeOK
  <2>2. QED BY <1>i, <2>1 DEF None
<1>1. CASE NewVersion(s)
  <2>1. version[s] < conf.Updates /\ version' = [version EXCEPT ![s] = @ + 1] /\ UNCHANGED <<lastEtag, updater>>
    BY <1>1 DEF NewVersion, slotVars, goVars
  <2>2. conf.Updates \in 0 .. MaxUpdates BY SupTypes, SupConf
  <2>3. version' \in [Slots -> 0 .. MaxUpdates] /\ \A q \in Slots : lastEtag[q] <= version'[q] BY <2>1, <2>2, <1>i
  <2>4. TypeOK' BY <2>1, <2>3, <1>u, <1>t DEF TypeOK
  <2>5. ConfInv' /\ SlotInv' /\ RunInv' /\ MainInv'
    BY <2>1, <1>u DEF SupInv, ConfInv, SlotInv, RunInv, MainInv, HasRun, Pending, ToCome
  <2>6. ListInv' /\ CloseInv' BY <2>1, <1>u DEF SupInv, ListInv, CloseInv, InList, Fresh, ToCome, Pending, HasRun
  <2>7. AloneInv' /\ KindInv' BY <2>1, <1>u DEF SupInv, AloneInv, UpdateIsNoExit, KindInv, OneType, HasRun
  <2>8. QED BY <2>4, <2>5, <2>6, <2>7 DEF SupInv
<1>2. CASE GetPublicByGUID(s)
  <2>1. /\ updater[s] = "sleep" /\ version[s] # lastEtag[s] /\ version' = version
        /\ lastEtag' = [lastEtag EXCEPT ![s] = version[s]] /\ updater' = [updater EXCEPT ![s] = "remove"]
    BY <1>2 DEF GetPublicByGUID
  <2>2. /\ lastEtag' \in [Slots -> 0 .. MaxUpdates] /\ (\A q \in Slots : lastEtag'[q] <= version[q])
        /\ lastEtag'[s] \in Nat /\ lastEtag[s] < lastEtag'[s] /\ \A q \in Slots : q # s => lastEtag'[q] = lastEtag[q]
    BY <2>1, <1>i
  <2>3. /\ updater' \in [Slots -> {"no", "sleep", "remove", "close", "wait"}] /\ updater'[s] = "remove"
        /\ \A q \in Slots : q # s => updater'[q] = updater[q]
    BY <2>1, <1>i
  <2>f. \A q \in Slots : Fresh(q)' <=> Fresh(q) BY <2>1, <2>3, <1>u DEF Fresh
  <2>g. \A q \in Slots : \A g \in Versions : ToCome(q, g)' => ToCome(q, g)
    <3> SUFFICES ASSUME NEW q \in Slots, NEW g \in Versions, ToCome(q, g)' PROVE ToCome(q, g) OBVIOUS
    <3>1. CASE q = s
      <4>1. lastEtag'[s] <= g BY <3>1, <2>2 DEF ToCome, Versions
      <4>2. lastEtag[s] < g BY <4>1, <2>2, <1>n DEF Versions
      <4>3. QED BY <4>2, <3>1 DEF ToCome
    <3>2. CASE q # s BY <3>2, <2>2, <2>3 DEF ToCome, Pending
    <3>3. QED BY <3>1, <3>2
  <2>h. \A q \in Slots : HasRun(q)' <=> HasRun(q) BY <1>u DEF HasRun
  <2>4. TypeOK' BY <2>1, <2>2, <2>3, <1>u, <1>t DEF TypeOK
  <2>5. ConfInv' /\ MainInv' BY <1>u DEF SupInv, ConfInv, MainInv, HasRun
  <2>6. SlotInv'
    <3> SUFFICES ASSUME NEW q \in Slots
                 PROVE /\ current[q] <= lastEtag'[q] /\ (Pending(q)' => current[q] < lastEtag'[q] /\ lastEtag'[q] > 0)
                       /\ updater'[q] = "wait" => current[q] # None
                       /\ updater'[q] # "no" => ~conf.service /\ q <= Len(configs) /\ configs[q].Cloud /\ HasRun(q)
                       /\ lastEtag'[q] = 0 /\ HasRun(q) => current[q] = 0
                       /\ ~HasRun(q) => current[q] = None /\ lastEtag'[q] = 0 /\ monitor[q] = "no"
      BY <1>u, <2>h DEF SlotInv
    <3>o. SlotInv BY DEF SupInv
    <3>1. CASE q = s
      <4>1. current[s] <= lastEtag[s] /\ ~conf.service /\ s <= Len(configs) /\ configs[s].Cloud /\ HasRun(s)
        BY <2>1, <3>o DEF SlotInv
      <4>2. current[s] < lastEtag'[s] /\ lastEtag'[s] > 0 BY <4>1, <2>2, <1>n
      <4>3. current[s] <= lastEtag'[s] BY <4>2, <2>2, <1>n
      <4>4. QED BY <3>1, <4>1, <4>2, <4>3, <2>3
    <3>2. CASE q # s BY <3>2, <3>o, <2>2, <2>3 DEF SlotInv, Pending
    <3>3. QED BY <3>1, <3>2
  <2>7. RunInv' BY <1>u, <2>g DEF SupInv, RunInv
  <2>8. ListInv' BY <1>u, <2>f DEF SupInv, ListInv, InList
  <2>9. CloseInv'
    <3>1. \A q \in Slots : updater'[q] \in {"close", "sleep", "remove"} => updater[q] \in {"close", "sleep", "remove"}
      BY <2>1, <2>3
    <3>2. QED BY <3>1, <1>u, <2>f, <2>g, <2>h DEF SupInv, CloseInv
  <2>10. AloneInv' /\ KindInv' BY <1>u DEF SupInv, AloneInv, UpdateIsNoExit, KindInv, OneType, HasRun
  <2>11. QED BY <2>4, <2>5, <2>6, <2>7, <2>8, <2>9, <2>10 DEF SupInv
<1>3. QED BY <1>1, <1>2

\* An update starts the next adapter, the previous one having stopped, or fails to.
LEMMA SupStartNew == ASSUME SupInv, NEW s \in Slots, StartNew(s) \/ StartNewFails(s) PROVE SupInv'
<1> USE SupConstants
<1>t. TypeOK /\ SlotInv /\ RunInv BY DEF SupInv
<1>u. UNCHANGED <<conf, configs, pc, pos, range, array, len, method, lastEtag, monitor, version, ctl, ctlPos, closes, alone,
                  why, raced>>
  BY DEF StartNew, StartNewFails, runAdapter, mainVars, listVars, clientVars
<1>p. updater[s] = "wait" /\ run[<<s, current[s]>>] = "stopped" /\ updater' = [updater EXCEPT ![s] = "sleep"]
  BY DEF StartNew, StartNewFails, PreviousStopped
<1>g. DEFINE e == lastEtag[s]
<1>q. /\ e \in Versions /\ <<s, e>> \in Clients /\ current[s] \in Versions /\ current[s] < e /\ e > 0 /\ ToCome(s, e)
      /\ run[<<s, e>>] = "no" /\ ~conf.service /\ s <= Len(configs) /\ configs[s].Cloud /\ HasRun(s)
  <2>1. e \in Versions /\ current[s] # None BY <1>p, <1>t, SupTypes DEF SlotInv
  <2>2. current[s] < e /\ e > 0 /\ ToCome(s, e) BY <1>p, <1>t DEF SlotInv, Pending, ToCome
  <2>3. QED BY <2>1, <2>2, <1>p, <1>t, SupTypes DEF SlotInv, RunInv
<1>c. /\ current' \in [Slots -> None .. MaxUpdates] /\ current'[s] \in {e, None}
      /\ \A q \in Slots : q # s => current'[q] = current[q]
  <2>1. current \in [Slots -> None .. MaxUpdates] BY <1>t DEF TypeOK
  <2>2. current' = [current EXCEPT ![s] = e] \/ current' = [current EXCEPT ![s] = None] BY DEF StartNew, StartNewFails
  <2>3. e \in None .. MaxUpdates /\ None \in None .. MaxUpdates BY <1>q DEF Versions, None
  <2>4. QED BY <2>1, <2>2, <2>3
<1>v. /\ updater' \in [Slots -> {"no", "sleep", "remove", "close", "wait"}] /\ updater'[s] = "sleep"
      /\ \A q \in Slots : q # s => updater'[q] = updater[q]
  <2>1. updater \in [Slots -> {"no", "sleep", "remove", "close", "wait"}] BY <1>t DEF TypeOK
  <2>2. QED BY <2>1, <1>p
<1>r. /\ run' \in [Clients -> {"no", "running", "closing", "stopped"}]
      /\ \A y \in Clients : y # <<s, e>> => run'[y] = run[y] /\ kind'[y] = kind[y]
      /\ kind' = [x \in Clients |-> kind'[x]]
      /\ \/ run'[<<s, e>>] = "running" /\ kind'[<<s, e>>] = method /\ current'[s] = e
         \/ run' = run
  <2>1. run \in [Clients -> {"no", "running", "closing", "stopped"}] /\ kind = [x \in Clients |-> kind[x]]
    BY SupTypes DEF SupInv, ConfInv
  <2>2. \/ run' = [run EXCEPT ![<<s, e>>] = "running"] /\ kind' = [kind EXCEPT ![<<s, e>>] = method]
           /\ current' = [current EXCEPT ![s] = e]
        \/ UNCHANGED <<run, kind>>
    BY DEF StartNew, StartNewFails, runAdapter, clientVars
  <2>3. current \in [Slots -> None .. MaxUpdates] BY <1>t DEF TypeOK
  <2>4. QED BY <2>1, <2>2, <2>3, <1>q
<1> HIDE DEF e
<1>i. e \in Nat /\ current[s] \in Nat /\ current'[s] \in Int BY <1>q, <1>c DEF Versions, None
<1>h. \A q \in Slots : HasRun(q)' <=> HasRun(q)
  <2> SUFFICES ASSUME NEW q \in Slots PROVE run'[<<q, 0>>] = run[<<q, 0>>] BY DEF HasRun
  <2>1. <<q, 0>> # <<s, e>> BY <1>q
  <2>2. QED BY <2>1, <1>r
<1>f. \A q \in Slots : Fresh(q)' <=> Fresh(q)
  <2>1. ~Fresh(s) BY <1>p DEF Fresh
  <2>2. current'[s] # 0 BY <1>c, <1>q, <1>i DEF None
  <2>3. ~Fresh(s)' BY <2>2 DEF Fresh
  <2>4. \A q \in Slots : q # s => (Fresh(q)' <=> Fresh(q)) BY <1>c, <1>v DEF Fresh
  <2>5. QED BY <2>1, <2>3, <2>4
<1>k. \A q \in Slots, g \in Versions : ToCome(q, g)' => ToCome(q, g) /\ <<q, g>> # <<s, e>>
  <2> SUFFICES ASSUME NEW q \in Slots, NEW g \in Versions, ToCome(q, g)' PROVE ToCome(q, g) /\ <<q, g>> # <<s, e>>
    OBVIOUS
  <2>1. CASE q = s
    <3>1. e < g BY <2>1, <1>v, <1>u DEF ToCome, Pending, e
    <3>2. QED BY <3>1, <2>1, <1>i DEF ToCome, e
  <2>2. CASE q # s BY <2>2, <1>v, <1>u DEF ToCome, Pending
  <2>3. QED BY <2>1, <2>2
<1>1. TypeOK' BY <1>u, <1>c, <1>v, <1>r, <1>t DEF TypeOK
<1>2. ConfInv' BY <1>u, <1>r DEF SupInv, ConfInv
<1>3. SlotInv'
  <2> SUFFICES ASSUME NEW q \in Slots
               PROVE /\ current'[q] <= lastEtag[q] /\ (Pending(q)' => current'[q] < lastEtag[q] /\ lastEtag[q] > 0)
                     /\ updater'[q] = "wait" => current'[q] # None
                     /\ updater'[q] # "no" => ~conf.service /\ q <= Len(configs) /\ configs[q].Cloud /\ HasRun(q)
                     /\ lastEtag[q] = 0 /\ HasRun(q) => current'[q] = 0
                     /\ ~HasRun(q) => current'[q] = None /\ lastEtag[q] = 0 /\ monitor[q] = "no"
    BY <1>u, <1>h DEF SlotInv
  <2>1. CASE q = s
    <3>1. current'[s] <= e /\ e # 0 BY <1>c, <1>i, <1>q DEF None
    <3>2. QED BY <2>1, <3>1, <1>v, <1>q DEF Pending, e
  <2>2. CASE q # s BY <2>2, <1>c, <1>v, <1>t DEF SlotInv, Pending
  <2>3. QED BY <2>1, <2>2
<1>4. RunInv'
  <2> SUFFICES ASSUME NEW q \in Slots, NEW g \in Versions
               PROVE /\ run'[<<q, g>>] \in {"running", "closing"} => g = current'[q]
                     /\ run'[<<q, g>>] \in {"closing", "stopped"} => closes[<<q, g>>] > 0 \/ <<q, g>> \in alone
                     /\ ToCome(q, g)' => run'[<<q, g>>] = "no"
    BY <1>u DEF RunInv
  <2>o. /\ run[<<q, g>>] \in {"running", "closing"} => g = current[q]
        /\ run[<<q, g>>] \in {"closing", "stopped"} => closes[<<q, g>>] > 0 \/ <<q, g>> \in alone
        /\ ToCome(q, g) => run[<<q, g>>] = "no"
    BY <1>t DEF RunInv
  <2>1. CASE q # s
    <3>1. <<q, g>> # <<s, e>> BY <2>1
    <3>2. run'[<<q, g>>] = run[<<q, g>>] /\ current'[q] = current[q] BY <3>1, <2>1, <1>r, <1>c
    <3>3. QED BY <3>2, <2>o, <1>k
  <2>2. CASE q = s /\ <<q, g>> # <<s, e>>
    <3>1. run'[<<q, g>>] = run[<<q, g>>] BY <2>2, <1>r
    <3>2. run[<<q, g>>] \notin {"running", "closing"} BY <2>2, <2>o, <1>p
    <3>3. QED BY <3>1, <3>2, <2>o, <1>k
  <2>3. CASE q = s /\ <<q, g>> = <<s, e>>
    <3>1. g = e /\ ~ToCome(q, g)' BY <2>3, <1>k
    <3>2. run'[<<q, g>>] = "no" \/ (run'[<<q, g>>] = "running" /\ current'[q] = g) BY <2>3, <3>1, <1>r, <1>q
    <3>3. QED BY <3>1, <3>2
  <2>4. QED BY <2>1, <2>2, <2>3
<1>5. MainInv'
  <2>1. \A q \in 1 .. Len(configs) : q \in Slots BY SupTypes DEF Slots
  <2>2. QED BY <2>1, <1>u, <1>h DEF SupInv, MainInv
<1>6. ListInv' BY <1>u, <1>f DEF SupInv, ListInv, InList
<1>7. CloseInv'
  <2> SUFFICES ASSUME ~conf.service, ~raced PROVE CloseInv' BY <1>u DEF CloseInv
  <2>o. CloseInv BY DEF SupInv
  <2>1. closes[<<s, e>>] = 0 BY <1>q, <2>o DEF CloseInv
  <2>2. \A q \in Slots : updater'[q] \in {"close", "sleep", "remove"} /\ current'[q] # None /\ ~Fresh(q) =>
          closes[<<q, current'[q]>>] = 0
    BY <2>1, <2>o, <1>c, <1>v DEF CloseInv
  <2>3. QED BY <2>2, <2>o, <1>u, <1>f, <1>k, <1>h DEF CloseInv
<1>8. AloneInv' BY <1>u DEF SupInv, AloneInv, UpdateIsNoExit
<1>9. KindInv'
  <2> SUFFICES ASSUME ~conf.service, OneType, NEW q \in Slots, q <= Len(configs), configs[q].Cloud
               PROVE /\ HasRun(q) => method = configs[q].SensorType
                     /\ \A g \in Versions : run'[<<q, g>>] # "no" => kind'[<<q, g>>] = configs[q].SensorType
    BY <1>u, <1>h DEF KindInv, OneType
  <2>o. /\ HasRun(q) => method = configs[q].SensorType
        /\ \A g \in Versions : run[<<q, g>>] # "no" => kind[<<q, g>>] = configs[q].SensorType
    BY DEF SupInv, KindInv
  <2>1. \A g \in Versions : run'[<<q, g>>] # "no" => kind'[<<q, g>>] = configs[q].SensorType
    <3> SUFFICES ASSUME NEW g \in Versions, run'[<<q, g>>] # "no" PROVE kind'[<<q, g>>] = configs[q].SensorType OBVIOUS
    <3>1. CASE <<q, g>> # <<s, e>> BY <3>1, <2>o, <1>r
    <3>2. CASE <<q, g>> = <<s, e>>
      <4>1. q = s /\ g = e BY <3>2
      <4>2. kind'[<<q, g>>] = method BY <3>2, <1>r, <1>q
      <4>3. QED BY <4>1, <4>2, <2>o, <1>q
    <3>3. QED BY <3>1, <3>2
  <2>2. QED BY <2>1, <2>o
<1>10. QED BY <1>1, <1>2, <1>3, <1>4, <1>5, <1>6, <1>7, <1>8, <1>9 DEF SupInv

\* Removing a client that is in the list once moves those after it one place down.
LEMMA WithoutFacts ==
  ASSUME SupInv, NEW i \in 1 .. len
  PROVE /\ Without(array[i]) \in [Slots -> Clients]
        /\ \A k \in 1 .. len - 1 : Without(array[i])[k] = IF k < i THEN array[k] ELSE array[k + 1]
<1> USE SupConstants
<1>t. len \in 0 .. MaxSlots /\ array \in [Slots -> Clients] /\ i \in Nat /\ len \in Nat BY SupTypes
<1>d. \A j \in 1 .. len : array[j] = array[i] => j = i BY DEF SupInv, ListInv
<1>1. \A k \in Slots : k < len => k + 1 \in Slots BY <1>t DEF Slots
<1>2. Without(array[i]) \in [Slots -> Clients] BY <1>t, <1>1 DEF Without
<1>3. \A k \in 1 .. len - 1 : Without(array[i])[k] = IF k < i THEN array[k] ELSE array[k + 1]
  <2> TAKE k \in 1 .. len - 1
  <2>1. k \in Slots /\ k < len /\ k \in Nat BY <1>t DEF Slots
  <2>2. (\E j \in 1 .. k : array[j] = array[i]) <=> ~(k < i)
    <3>1. ASSUME NEW j \in 1 .. k, array[j] = array[i] PROVE ~(k < i)
      <4>1. j \in 1 .. len BY <2>1, <1>t
      <4>2. j = i BY <4>1, <3>1, <1>d
      <4>3. QED BY <4>2, <2>1, <1>t
    <3>2. ~(k < i) => i \in 1 .. k BY <2>1, <1>t
    <3>3. QED BY <3>1, <3>2
  <2>3. Without(array[i])[k] = IF k < len /\ (\E j \in 1 .. k : array[j] = array[i]) THEN array[k + 1] ELSE array[k]
    BY <2>1 DEF Without
  <2>4. QED BY <2>1, <2>2, <2>3
<1>4. QED BY <1>2, <1>3

\* An update removes its adapter from the list, if it is the first of the slot.
LEMMA SupRemove == ASSUME SupInv, NEW s \in Slots, RemoveClient(s) PROVE SupInv'
<1> USE SupConstants
<1>t. TypeOK /\ SlotInv /\ ListInv /\ MainInv BY DEF SupInv
<1>u. UNCHANGED <<conf, configs, pc, pos, range, method, current, lastEtag, monitor, version, ctl, ctlPos, run, kind, closes,
                  alone, why>>
  BY DEF RemoveClient, mainVars, slotVars, clientVars
<1>p. pc # "over" /\ updater[s] = "remove" /\ updater' = [updater EXCEPT ![s] = "close"] BY DEF RemoveClient
<1>v. /\ updater' \in [Slots -> {"no", "sleep", "remove", "close", "wait"}] /\ updater'[s] = "close"
      /\ \A q \in Slots : q # s => updater'[q] = updater[q]
  <2>1. updater \in [Slots -> {"no", "sleep", "remove", "close", "wait"}] BY <1>t DEF TypeOK
  <2>2. QED BY <2>1, <1>p
<1>l. len \in 0 .. MaxSlots /\ array \in [Slots -> Clients] BY <1>t DEF TypeOK
<1>g. \A q \in Slots, g \in Versions : ToCome(q, g)' <=> ToCome(q, g) BY <1>u, <1>v, <1>p DEF ToCome, Pending
<1>h. \A q \in Slots : HasRun(q)' <=> HasRun(q) BY <1>u DEF HasRun
<1>f. ~Fresh(s)' /\ \A q \in Slots : q # s => (Fresh(q)' <=> Fresh(q)) BY <1>u, <1>v DEF Fresh
<1>i. InList(<<s, current[s]>>) <=> Fresh(s)
  <2>1. Fresh(s) => InList(<<s, current[s]>>) BY <1>t DEF ListInv, Fresh
  <2>2. ASSUME InList(<<s, current[s]>>) PROVE Fresh(s)
    <3>1. PICK k \in 1 .. len : array[k] = <<s, current[s]>> BY <2>2 DEF InList
    <3>2. PICK t \in Slots : array[k] = <<t, 0>> /\ Fresh(t) BY <1>t DEF ListInv
    <3>3. t = s BY <3>1, <3>2
    <3>4. QED BY <3>2, <3>3
  <2>3. QED BY <2>1, <2>2
\* The entries of the new list are entries of the old one, in their order.
<1>n. PICK from \in [1 .. len' -> 1 .. len] :
        /\ len' \in 0 .. len /\ array' \in [Slots -> Clients]
        /\ \A k \in 1 .. len' : array'[k] = array[from[k]] /\ array[from[k]] # <<s, 0>>
        /\ \A j, k \in 1 .. len' : from[j] = from[k] => j = k
        /\ \A m \in 1 .. len : array[m] # <<s, 0>> => \E k \in 1 .. len' : from[k] = m
        /\ UNCHANGED <<array, len, raced>> \/ raced' \/ pc \in {"start", "select"}
        /\ raced => raced'
        /\ raced' => raced \/ pc \in {"close", "closing"}
        /\ raced' \in BOOLEAN
  <2>r. raced \in BOOLEAN /\ pc \in {"start", "select", "close", "closing", "over"} BY <1>t DEF TypeOK
  <2>1. CASE Fresh(s)
    <3>1. current[s] = 0 BY <2>1 DEF Fresh
    <3>2. PICK i \in 1 .. len : array[i] = <<s, 0>> BY <2>1, <1>t DEF ListInv, InList
    <3>3. array' = Without(array[i]) /\ len' = len - 1 /\ raced' = (raced \/ pc \in {"close", "closing"})
      BY <2>1, <3>1, <3>2, <1>i DEF RemoveClient
    <3> DEFINE from == [k \in 1 .. len - 1 |-> IF k < i THEN k ELSE k + 1]
    <3>4. /\ Without(array[i]) \in [Slots -> Clients]
          /\ \A k \in 1 .. len - 1 : Without(array[i])[k] = IF k < i THEN array[k] ELSE array[k + 1]
      BY WithoutFacts
    <3>5. from \in [1 .. len' -> 1 .. len] BY <3>3, <1>l
    <3>6. \A k \in 1 .. len' : from[k] = (IF k < i THEN k ELSE k + 1) /\ from[k] \in 1 .. len /\ from[k] # i BY <3>3, <1>l
    <3> HIDE DEF from
    <3>7. \A k \in 1 .. len' : array'[k] = array[from[k]] BY <3>3, <3>4, <3>6
    <3>8. \A k \in 1 .. len' : array[from[k]] # <<s, 0>> BY <3>2, <3>6, <1>t DEF ListInv
    <3>9. \A j, k \in 1 .. len' : from[j] = from[k] => j = k BY <3>6, <1>l
    <3>10. \A m \in 1 .. len : array[m] # <<s, 0>> => \E k \in 1 .. len' : from[k] = m
      <4> SUFFICES ASSUME NEW m \in 1 .. len, m # i PROVE \E k \in 1 .. len' : from[k] = m BY <3>2
      <4>1. CASE m < i
        <5>1. m \in 1 .. len' BY <4>1, <3>3, <1>l
        <5>2. from[m] = m BY <5>1, <4>1, <3>6
        <5>3. QED BY <5>1, <5>2
      <4>2. CASE m > i
        <5>1. m - 1 \in 1 .. len' /\ ~(m - 1 < i) BY <4>2, <3>3, <1>l
        <5>2. from[m - 1] = m BY <5>1, <3>6, <1>l
        <5>3. QED BY <5>1, <5>2
      <4>3. QED BY <4>1, <4>2, <1>l
    <3>11. len' \in 0 .. len BY <3>3, <1>l
    <3>12. /\ UNCHANGED <<array, len, raced>> \/ raced' \/ pc \in {"start", "select"}
           /\ raced => raced'
           /\ raced' => raced \/ pc \in {"close", "closing"}
           /\ raced' \in BOOLEAN
      BY <3>3, <1>p, <2>r
    <3>13. QED BY <3>3, <3>4, <3>5, <3>7, <3>8, <3>9, <3>10, <3>11, <3>12
  <2>2. CASE ~Fresh(s)
    <3>1. UNCHANGED <<array, len, raced>> BY <2>2, <1>i DEF RemoveClient, listVars
    <3> DEFINE from == [k \in 1 .. len |-> k]
    <3>2. from \in [1 .. len' -> 1 .. len] /\ \A k \in 1 .. len : from[k] = k BY <3>1
    <3> HIDE DEF from
    <3>3. \A k \in 1 .. len : array[k] # <<s, 0>>
      <4> TAKE k \in 1 .. len
      <4>1. PICK t \in Slots : array[k] = <<t, 0>> /\ Fresh(t) BY <1>t DEF ListInv
      <4>2. QED BY <4>1, <2>2
    <3>4. len' \in 0 .. len BY <3>1, <1>l
    <3>5. QED BY <3>1, <3>2, <3>3, <3>4, <1>l, <2>r
  <2>3. QED BY <2>1, <2>2
<1>k. \A k \in 1 .. len' : from[k] \in 1 .. len BY <1>n
<1>1. TypeOK'
  <2>1. len' \in 0 .. MaxSlots BY <1>n, <1>l
  <2>2. QED BY <2>1, <1>n, <1>u, <1>v, <1>t DEF TypeOK
<1>2. ConfInv' BY <1>u DEF SupInv, ConfInv
<1>3. SlotInv' BY <1>u, <1>v, <1>p, <1>h, <1>t DEF SlotInv, Pending
<1>4. RunInv' BY <1>u, <1>g DEF SupInv, RunInv
<1>5. MainInv'
  <2>1. pc \in {"start", "select"} => ~raced' BY <1>n, <1>t DEF MainInv
  <2>2. pc = "start" => len' < pos BY <1>n, <1>l, <1>t DEF MainInv, TypeOK
  <2>3. \A q \in 1 .. Len(configs) : q \in Slots BY SupTypes DEF Slots
  <2>4. QED BY <2>1, <2>2, <2>3, <1>u, <1>h, <1>t DEF MainInv
<1>6. ListInv'
  <2>1. \A k \in 1 .. len' : \E t \in Slots : array'[k] = <<t, 0>> /\ Fresh(t)'
    <3> TAKE k \in 1 .. len'
    <3>1. PICK t \in Slots : array[from[k]] = <<t, 0>> /\ Fresh(t) BY <1>k, <1>t DEF ListInv
    <3>2. t # s BY <3>1, <1>n
    <3>3. QED BY <3>1, <3>2, <1>n, <1>f
  <2>2. \A q \in Slots : Fresh(q)' => \E k \in 1 .. len' : array'[k] = <<q, 0>>
    <3> SUFFICES ASSUME NEW q \in Slots, Fresh(q)' PROVE \E k \in 1 .. len' : array'[k] = <<q, 0>> OBVIOUS
    <3>1. q # s /\ Fresh(q) BY <1>f
    <3>2. PICK m \in 1 .. len : array[m] = <<q, 0>> BY <3>1, <1>t DEF ListInv, InList
    <3>3. array[m] # <<s, 0>> BY <3>1, <3>2
    <3>4. PICK k \in 1 .. len' : from[k] = m BY <3>3, <1>n
    <3>5. QED BY <3>2, <3>4, <1>n
  <2>3. \A j, k \in 1 .. len' : array'[j] = array'[k] => j = k
    <3> SUFFICES ASSUME NEW j \in 1 .. len', NEW k \in 1 .. len', array'[j] = array'[k] PROVE j = k OBVIOUS
    <3>1. array[from[j]] = array[from[k]] BY <1>n
    <3>2. from[j] = from[k] BY <3>1, <1>k, <1>t DEF ListInv
    <3>3. QED BY <3>2, <1>n
  <2>4. QED BY <2>1, <2>2, <2>3 DEF ListInv, InList
<1>7. CloseInv'
  <2> SUFFICES ASSUME ~conf.service, ~raced' PROVE CloseInv' BY <1>u DEF CloseInv
  <2>o. CloseInv /\ ~raced BY <1>n DEF SupInv
  <2>1. pc \in {"start", "select"} => \A k \in 1 .. len' : closes[array'[k]] = 0
    <3> SUFFICES ASSUME pc \in {"start", "select"}, NEW k \in 1 .. len' PROVE closes[array'[k]] = 0 OBVIOUS
    <3>1. closes[array[from[k]]] = 0 BY <2>o, <1>k DEF CloseInv
    <3>2. QED BY <3>1, <1>n
  <2>2. pc \in {"close", "closing"} =>
          range = len' /\ \A k \in 1 .. len' : closes[array'[k]] = IF k < pos \/ (pc = "closing" /\ k = pos) THEN 1 ELSE 0
    <3> SUFFICES ASSUME pc \in {"close", "closing"}
                 PROVE range = len' /\ \A k \in 1 .. len' : closes[array'[k]] = IF k < pos \/ (pc = "closing" /\ k = pos) THEN 1 ELSE 0
      OBVIOUS
    <3>1. array' = array /\ len' = len BY <1>n
    <3>2. QED BY <3>1, <2>o DEF CloseInv
  <2>3. \A q \in Slots : updater'[q] \in {"close", "sleep", "remove"} /\ current[q] # None /\ ~Fresh(q)' =>
          closes[<<q, current[q]>>] = 0
    <3> SUFFICES ASSUME NEW q \in Slots, updater'[q] \in {"close", "sleep", "remove"}, current[q] # None, ~Fresh(q)'
                 PROVE closes[<<q, current[q]>>] = 0
      OBVIOUS
    <3>1. CASE q # s BY <3>1, <1>v, <1>f, <2>o DEF CloseInv
    <3>2. CASE q = s /\ ~Fresh(s) BY <3>2, <1>p, <2>o DEF CloseInv
    <3>3. CASE q = s /\ Fresh(s)
      <4>1. current[s] = 0 BY <3>3 DEF Fresh
      <4>2. PICK m \in 1 .. len : array[m] = <<s, 0>> BY <3>3, <1>t DEF ListInv, InList
      <4>3. pc \in {"start", "select"}
        <5>1. SUFFICES ASSUME array' = array, len' = len PROVE FALSE BY <1>n
        <5>2. PICK t \in Slots : array'[m] = <<t, 0>> /\ Fresh(t)' BY <5>1, <1>6 DEF ListInv
        <5>3. t = s BY <5>1, <5>2, <4>2
        <5>4. QED BY <5>2, <5>3, <1>f
      <4>4. QED BY <4>1, <4>2, <4>3, <3>3, <2>o DEF CloseInv
    <3>4. QED BY <3>1, <3>2, <3>3
  <2>4. QED BY <2>1, <2>2, <2>3, <2>o, <1>u, <1>p, <1>g, <1>h DEF CloseInv
<1>8. AloneInv' BY <1>u DEF SupInv, AloneInv, UpdateIsNoExit
<1>9. KindInv' BY <1>u DEF SupInv, KindInv, OneType, HasRun
<1>10. QED BY <1>1, <1>2, <1>3, <1>4, <1>5, <1>6, <1>7, <1>8, <1>9 DEF SupInv

\* Main starts the first adapter of the next configuration and appends it to the list.
LEMMA SupStartAdapter == ASSUME SupInv, StartAdapter PROVE SupInv'
<1> USE SupConstants
<1>t. TypeOK /\ SlotInv /\ RunInv /\ ListInv /\ MainInv BY DEF SupInv
<1>u. UNCHANGED <<conf, configs, pc, range, lastEtag, version, ctl, ctlPos, closes, alone, why, raced>>
  BY DEF StartAdapter, runAdapter
<1>a. /\ pc = "start" /\ len \in 0 .. MaxSlots /\ pos \in 1 .. MaxSlots + 1 /\ Len(configs) \in 0 .. MaxSlots /\ len < pos
      /\ pos <= Len(configs) /\ \A q \in Slots : HasRun(q) <=> q < pos
  BY <1>t, SupTypes DEF StartAdapter, TypeOK, MainInv
<1>s. PICK p \in Slots : p = pos /\ len + 1 \in Slots /\ p \in 1 .. Len(configs) /\ <<p, 0>> \in Clients
  <2>1. pos \in Slots /\ len + 1 \in Slots /\ pos \in 1 .. Len(configs) BY <1>a DEF Slots
  <2>2. QED BY <2>1
<1> DEFINE cloud == configs[p].Cloud /\ ~conf.service
           m == IF cloud THEN configs[p].SensorType ELSE method
<1>p. /\ method' = m /\ pos' = p + 1 /\ len' = len + 1
      /\ run' = [run EXCEPT ![<<p, 0>>] = "running"] /\ kind' = [kind EXCEPT ![<<p, 0>>] = m]
      /\ updater' = [updater EXCEPT ![p] = IF cloud THEN "sleep" ELSE "no"]
      /\ current' = [current EXCEPT ![p] = 0] /\ array' = [array EXCEPT ![len + 1] = <<p, 0>>]
      /\ monitor' = [monitor EXCEPT ![p] = "watch"]
  BY <1>s DEF StartAdapter, runAdapter
<1>b. ~HasRun(p) /\ current[p] = None /\ lastEtag[p] = 0 /\ updater[p] = "no" /\ ~Fresh(p) /\ ~Pending(p)
  <2>1. ~HasRun(p) BY <1>a, <1>s
  <2>2. current[p] = None /\ lastEtag[p] = 0 /\ updater[p] = "no" BY <2>1, <1>s, <1>t DEF SlotInv
  <2>3. QED BY <2>1, <2>2 DEF Fresh, Pending, None
<1>r. /\ run' \in [Clients -> {"no", "running", "closing", "stopped"}] /\ run'[<<p, 0>>] = "running"
      /\ \A x \in Clients : x # <<p, 0>> => run'[x] = run[x] /\ kind'[x] = kind[x]
      /\ kind'[<<p, 0>>] = m /\ kind' = [x \in Clients |-> kind'[x]]
  <2>1. run \in [Clients -> {"no", "running", "closing", "stopped"}] /\ kind = [x \in Clients |-> kind[x]]
    BY <1>t DEF TypeOK, SupInv, ConfInv
  <2> HIDE DEF m
  <2>2. QED BY <2>1, <1>p, <1>s
<1>v. /\ updater' \in [Slots -> {"no", "sleep", "remove", "close", "wait"}] /\ updater'[p] = IF cloud THEN "sleep" ELSE "no"
      /\ monitor' \in [Slots -> {"no", "watch", "send", "done"}] /\ monitor'[p] = "watch"
      /\ \A q \in Slots : q # p => updater'[q] = updater[q] /\ monitor'[q] = monitor[q]
  <2>1. updater \in [Slots -> {"no", "sleep", "remove", "close", "wait"}] /\ monitor \in [Slots -> {"no", "watch", "send", "done"}]
    BY <1>t DEF TypeOK
  <2> HIDE DEF cloud
  <2>2. QED BY <2>1, <1>p, <1>s
<1>c. current' \in [Slots -> None .. MaxUpdates] /\ current'[p] = 0 /\ \A q \in Slots : q # p => current'[q] = current[q]
  <2>1. current \in [Slots -> None .. MaxUpdates] /\ 0 \in None .. MaxUpdates BY <1>t DEF TypeOK, None
  <2>2. QED BY <2>1, <1>p, <1>s
<1>d. array' \in [Slots -> Clients] /\ array'[len + 1] = <<p, 0>> /\ \A k \in 1 .. len : array'[k] = array[k]
  <2>1. array \in [Slots -> Clients] BY <1>t DEF TypeOK
  <2>2. \A k \in 1 .. len : k \in Slots /\ k # len + 1 BY <1>a DEF Slots
  <2>3. QED BY <2>1, <2>2, <1>p, <1>s
<1>e. (\A k \in 1 .. len' : k \in 1 .. len \/ k = len + 1) /\ len + 1 \in 1 .. len' /\ \A k \in 1 .. len : k \in 1 .. len'
  BY <1>p, <1>a
<1>h. HasRun(p)' /\ \A q \in Slots : q # p => (HasRun(q)' <=> HasRun(q))
  <2>1. run'[<<p, 0>>] # "no" BY <1>r
  <2>2. \A q \in Slots : q # p => run'[<<q, 0>>] = run[<<q, 0>>]
    <3> SUFFICES ASSUME NEW q \in Slots, q # p PROVE run'[<<q, 0>>] = run[<<q, 0>>] OBVIOUS
    <3>1. <<q, 0>> # <<p, 0>> OBVIOUS
    <3>2. QED BY <3>1, <1>r
  <2>3. QED BY <2>1, <2>2 DEF HasRun
<1>f. Fresh(p)' /\ ~Pending(p)' /\ \A q \in Slots : q # p => (Fresh(q)' <=> Fresh(q)) /\ (Pending(q)' <=> Pending(q))
  BY <1>c, <1>v DEF Fresh, Pending
<1>g. \A q \in Slots, g \in Versions : ToCome(q, g)' <=> ToCome(q, g) BY <1>u, <1>f, <1>b DEF ToCome
<1> HIDE DEF m
<1>1. TypeOK'
  <2>1. pos' \in 1 .. MaxSlots + 1 /\ len' \in 0 .. MaxSlots BY <1>p, <1>a, <1>s DEF Slots
  <2>2. QED BY <2>1, <1>u, <1>r, <1>v, <1>c, <1>d, <1>t DEF TypeOK
<1>2. ConfInv' BY <1>u, <1>r DEF SupInv, ConfInv
<1>3. SlotInv'
  <2> SUFFICES ASSUME NEW q \in Slots
               PROVE /\ current'[q] <= lastEtag[q] /\ (Pending(q)' => current'[q] < lastEtag[q] /\ lastEtag[q] > 0)
                     /\ updater'[q] = "wait" => current'[q] # None
                     /\ updater'[q] # "no" => ~conf.service /\ q <= Len(configs) /\ configs[q].Cloud /\ HasRun(q)'
                     /\ lastEtag[q] = 0 /\ HasRun(q)' => current'[q] = 0
                     /\ ~HasRun(q)' => current'[q] = None /\ lastEtag[q] = 0 /\ monitor'[q] = "no"
    BY <1>u DEF SlotInv
  <2>1. CASE q = p
    <3>1. updater'[q] # "no" => ~conf.service /\ configs[q].Cloud BY <2>1, <1>v
    <3>2. q <= Len(configs) BY <2>1, <1>s
    <3>3. updater'[q] # "wait" BY <2>1, <1>v
    <3>4. QED BY <2>1, <3>1, <3>2, <3>3, <1>b, <1>c, <1>f, <1>h
  <2>2. CASE q # p BY <2>2, <1>c, <1>v, <1>f, <1>h, <1>t DEF SlotInv
  <2>3. QED BY <2>1, <2>2
<1>4. RunInv'
  <2> SUFFICES ASSUME NEW q \in Slots, NEW g \in Versions
               PROVE /\ run'[<<q, g>>] \in {"running", "closing"} => g = current'[q]
                     /\ run'[<<q, g>>] \in {"closing", "stopped"} => closes[<<q, g>>] > 0 \/ <<q, g>> \in alone
                     /\ ToCome(q, g)' => run'[<<q, g>>] = "no"
    BY <1>u DEF RunInv
  <2>o. /\ run[<<q, g>>] \in {"running", "closing"} => g = current[q]
        /\ run[<<q, g>>] \in {"closing", "stopped"} => closes[<<q, g>>] > 0 \/ <<q, g>> \in alone
        /\ ToCome(q, g) => run[<<q, g>>] = "no"
    BY <1>t DEF RunInv
  <2>1. CASE q # p
    <3>1. <<q, g>> # <<p, 0>> BY <2>1
    <3>2. run'[<<q, g>>] = run[<<q, g>>] /\ current'[q] = current[q] BY <3>1, <2>1, <1>r, <1>c
    <3>3. QED BY <3>2, <2>o, <1>g
  <2>2. CASE q = p /\ g # 0
    <3>1. <<q, g>> # <<p, 0>> BY <2>2
    <3>2. run'[<<q, g>>] = run[<<q, g>>] BY <3>1, <1>r
    <3>3. 0 < g BY <2>2 DEF Versions
    <3>4. ToCome(q, g) BY <2>2, <3>3, <1>b DEF ToCome
    <3>5. QED BY <3>2, <3>4, <2>o
  <2>3. CASE q = p /\ g = 0
    <3>1. ~ToCome(q, g) BY <2>3, <1>b DEF ToCome
    <3>2. QED BY <3>1, <2>3, <1>r, <1>c, <1>g
  <2>4. QED BY <2>1, <2>2, <2>3
<1>5. MainInv'
  <2>1. pos' <= Len(configs) + 1 /\ len' < pos' BY <1>p, <1>a, <1>s
  <2>2. \A q \in Slots : HasRun(q)' <=> q < pos'
    <3> SUFFICES ASSUME NEW q \in Slots PROVE HasRun(q)' <=> q < pos' OBVIOUS
    <3>1. q < pos' <=> q < p \/ q = p BY <1>p DEF Slots
    <3>2. QED BY <3>1, <1>h, <1>a, <1>s
  <2>3. QED BY <2>1, <2>2, <1>u, <1>a, <1>t DEF MainInv
<1>6. ListInv'
  <2>n. \A k \in 1 .. len : array[k] # <<p, 0>>
    <3> TAKE k \in 1 .. len
    <3>1. PICK q \in Slots : array[k] = <<q, 0>> /\ Fresh(q) BY <1>t DEF ListInv
    <3>2. QED BY <3>1, <1>b
  <2>1. \A k \in 1 .. len' : \E q \in Slots : array'[k] = <<q, 0>> /\ Fresh(q)'
    <3> TAKE k \in 1 .. len'
    <3>1. CASE k = len + 1 BY <3>1, <1>d, <1>f
    <3>2. CASE k \in 1 .. len
      <4>1. PICK q \in Slots : array[k] = <<q, 0>> /\ Fresh(q) BY <3>2, <1>t DEF ListInv
      <4>2. q # p BY <4>1, <1>b
      <4>3. QED BY <4>1, <4>2, <3>2, <1>d, <1>f
    <3>3. QED BY <3>1, <3>2, <1>e
  <2>2. \A q \in Slots : Fresh(q)' => \E k \in 1 .. len' : array'[k] = <<q, 0>>
    <3> SUFFICES ASSUME NEW q \in Slots, Fresh(q)' PROVE \E k \in 1 .. len' : array'[k] = <<q, 0>> OBVIOUS
    <3>1. CASE q = p BY <3>1, <1>d, <1>e
    <3>2. CASE q # p
      <4>1. PICK k \in 1 .. len : array[k] = <<q, 0>> BY <3>2, <1>f, <1>t DEF ListInv, InList
      <4>2. QED BY <4>1, <1>d, <1>e
    <3>3. QED BY <3>1, <3>2
  <2>3. \A j, k \in 1 .. len' : array'[j] = array'[k] => j = k
    <3> SUFFICES ASSUME NEW j \in 1 .. len', NEW k \in 1 .. len', array'[j] = array'[k] PROVE j = k OBVIOUS
    <3>1. CASE j \in 1 .. len /\ k \in 1 .. len
      <4>1. array[j] = array[k] BY <3>1, <1>d
      <4>2. QED BY <4>1, <3>1, <1>t DEF ListInv
    <3>2. CASE j = len + 1 /\ k \in 1 .. len BY <3>2, <1>d, <2>n
    <3>3. CASE k = len + 1 /\ j \in 1 .. len BY <3>3, <1>d, <2>n
    <3>4. QED BY <3>1, <3>2, <3>3, <1>e
  <2>4. QED BY <2>1, <2>2, <2>3 DEF ListInv, InList
<1>7. CloseInv'
  <2> SUFFICES ASSUME ~conf.service, ~raced PROVE CloseInv' BY <1>u DEF CloseInv
  <2>o. CloseInv BY DEF SupInv
  <2>1. closes[<<p, 0>>] = 0 BY <1>b, <2>o DEF CloseInv
  <2>2. \A k \in 1 .. len' : closes[array'[k]] = 0
    <3>1. \A k \in 1 .. len : closes[array'[k]] = 0 BY <2>o, <1>a, <1>d DEF CloseInv
    <3>2. QED BY <3>1, <2>1, <1>d, <1>e
  <2>3. \A q \in Slots : updater'[q] \in {"close", "sleep", "remove"} /\ current'[q] # None /\ ~Fresh(q)' =>
          closes[<<q, current'[q]>>] = 0
    BY <2>o, <1>c, <1>v, <1>f DEF CloseInv
  <2>4. \A q \in Slots : \A g \in Versions : ToCome(q, g)' \/ ~HasRun(q)' => closes[<<q, g>>] = 0
    BY <2>o, <1>g, <1>h, <1>b DEF CloseInv
  <2>5. QED BY <2>2, <2>3, <2>4, <2>o, <1>u, <1>a DEF CloseInv
<1>8. AloneInv'
  <2>1. \A q \in Slots : monitor'[q] = "send" => monitor[q] = "send" BY <1>v
  <2>2. QED BY <2>1, <1>u DEF SupInv, AloneInv, UpdateIsNoExit
<1>9. KindInv'
  <2> SUFFICES ASSUME ~conf.service, OneType, NEW q \in Slots, q <= Len(configs), configs[q].Cloud
               PROVE /\ HasRun(q)' => method' = configs[q].SensorType
                     /\ \A g \in Versions : run'[<<q, g>>] # "no" => kind'[<<q, g>>] = configs[q].SensorType
    BY <1>u DEF KindInv, OneType
  <2>q. q \in 1 .. Len(configs) BY <1>a DEF Slots
  <2>o. /\ HasRun(q) => method = configs[q].SensorType
        /\ \A g \in Versions : run[<<q, g>>] # "no" => kind[<<q, g>>] = configs[q].SensorType
    BY DEF SupInv, KindInv
  <2>1. cloud => m = configs[q].SensorType
    <3>1. cloud => configs[p].SensorType = configs[q].SensorType BY <2>q, <1>s DEF OneType
    <3>2. QED BY <3>1 DEF m
  <2>2. ~cloud => m = method /\ q # p BY DEF m
  <2>3. HasRun(q)' => method' = configs[q].SensorType BY <2>1, <2>2, <2>o, <1>p, <1>h
  <2>4. \A g \in Versions : run'[<<q, g>>] # "no" => kind'[<<q, g>>] = configs[q].SensorType
    <3> SUFFICES ASSUME NEW g \in Versions, run'[<<q, g>>] # "no" PROVE kind'[<<q, g>>] = configs[q].SensorType OBVIOUS
    <3>1. CASE <<q, g>> # <<p, 0>> BY <3>1, <2>o, <1>r
    <3>2. CASE <<q, g>> = <<p, 0>>
      <4>1. q = p BY <3>2
      <4>2. QED BY <4>1, <3>2, <2>1, <2>2, <1>r
    <3>3. QED BY <3>1, <3>2
  <2>5. QED BY <2>3, <2>4
<1>10. QED BY <1>1, <1>2, <1>3, <1>4, <1>5, <1>6, <1>7, <1>8, <1>9 DEF SupInv

-----------------------------------------------------------------------------
\* Every step keeps the invariant.
LEMMA SupStep == ASSUME SupInv, [Next]_vars PROVE SupInv'
<1>1. CASE StartAdapter BY <1>1, SupStartAdapter
<1>2. CASE Started BY <1>2, SupStarted
<1>3. CASE CloseNext BY <1>3, SupCloseNext
<1>4. CASE CloseReturns \/ Exit BY <1>4, SupLoop
<1>5. CASE Signal \/ \E s \in Slots : ReceiveRunnings(s) BY <1>5, SupLeavesSelect
<1>6. CASE ControlClose BY <1>6, SupControlClose
<1>7. CASE StartFails \/ HealthFails \/ CloseFails \/ (\E s \in Slots : CloseNil(s) \/ ServiceStopped(s)) BY <1>7, SupOver
<1>8. CASE ControlStop \/ Gone \/ UNCHANGED vars BY <1>8, SupControlStop
<1>9. ASSUME NEW s \in Slots, MonitorWakes(s) PROVE SupInv' BY <1>9, SupMonitor
<1>10. ASSUME NEW s \in Slots, NewVersion(s) \/ GetPublicByGUID(s) PROVE SupInv' BY <1>10, SupVersion
<1>11. ASSUME NEW s \in Slots, RemoveClient(s) PROVE SupInv' BY <1>11, SupRemove
<1>12. ASSUME NEW s \in Slots, CloseClient(s) PROVE SupInv' BY <1>12, SupCloseClient
<1>13. ASSUME NEW s \in Slots, StartNew(s) \/ StartNewFails(s) PROVE SupInv' BY <1>13, SupStartNew
<1>14. ASSUME NEW x \in Clients, AdapterStops(x) \/ AdapterEnds(x) PROVE SupInv' BY <1>14, SupAdapter
<1>15. QED
  BY <1>1, <1>2, <1>3, <1>4, <1>5, <1>6, <1>7, <1>8, <1>9, <1>10, <1>11, <1>12, <1>13, <1>14 DEF Next, Main, Service, Updater

-----------------------------------------------------------------------------
(***************************************************************************)
(* What a sender sends.                                                    *)
(***************************************************************************)

\* A set of naturals that is not empty has a least element.
LEMMA LeastNatural ==
  ASSUME NEW B \in SUBSET Nat, B # {}
  PROVE  \E m \in B : \A k \in B : m <= k
<1> DEFINE R == {ss \in Nat \X Nat : ss[1] < ss[2]}
<1>1. IsWellFoundedOn(R, Nat) BY NatLessThanWellFounded DEF OpToRel
<1> HIDE DEF R
<1>2. PICK m \in B : \A k \in B : ~(<<k, m>> \in R) BY <1>1, WFMin
<1>3. \A k \in B : ~(k < m) BY <1>2 DEF R
<1>4. QED BY <1>3

\* Both parts of a concatenation.
LEMMA ConcatIs ==
  ASSUME NEW S, NEW a \in Seq(S), NEW b \in Seq(S), NEW c, c = a \o b
  PROVE  /\ c \in Seq(S) /\ Len(a) \in Nat /\ Len(b) \in Nat /\ Len(c) = Len(a) + Len(b)
         /\ \A j \in 1 .. Len(a) : c[j] = a[j]
         /\ \A j \in 1 .. Len(b) : c[Len(a) + j] = b[j]
         /\ \A j \in Len(a) + 1 .. Len(c) : c[j] = b[j - Len(a)]
<1>1. c \in Seq(S) /\ Len(a) \in Nat /\ Len(b) \in Nat /\ Len(c) = Len(a) + Len(b)
  BY ConcatProperties, LenProperties
<1>2. \A j \in 1 .. Len(a) + Len(b) : c[j] = IF j <= Len(a) THEN a[j] ELSE b[j - Len(a)]
  BY ConcatProperties
<1>3. \A j \in 1 .. Len(a) : c[j] = a[j] BY <1>1, <1>2
<1>4. \A j \in Len(a) + 1 .. Len(c) : c[j] = b[j - Len(a)] BY <1>1, <1>2
<1>5. \A j \in 1 .. Len(b) : c[Len(a) + j] = b[j]
  <2> SUFFICES ASSUME NEW j \in 1 .. Len(b) PROVE c[Len(a) + j] = b[j] OBVIOUS
  <2>1. Len(a) + j \in Len(a) + 1 .. Len(c) /\ (Len(a) + j) - Len(a) = j BY <1>1
  <2>2. QED BY <1>4, <2>1
<1>6. QED BY <1>1, <1>3, <1>4, <1>5

\* A function can be defined by what it is at 0 and by a step.
LEMMA Recursion ==
  ASSUME NEW S, NEW base \in S, NEW n \in Nat, NEW G \in [1 .. n -> [S -> S]]
  PROVE  \E f : f \in [0 .. n -> S] /\ f[0] = base /\ \A i \in 1 .. n : f[i] = G[i][f[i - 1]]
<1> DEFINE Is(m, f) == f \in [0 .. m -> S] /\ f[0] = base /\ \A i \in 1 .. m : f[i] = G[i][f[i - 1]]
           B == {m \in Nat : m <= n /\ ~\E f : Is(m, f)}
<1> SUFFICES ASSUME ~\E f : Is(n, f) PROVE FALSE BY Zenon
<1>0. n \in B OBVIOUS
<1>1. PICK m \in B : \A k \in B : m <= k BY <1>0, LeastNatural
<1>2. CASE m = 0
  <2> DEFINE f == [i \in 0 .. 0 |-> base]
  <2>1. Is(0, f) OBVIOUS
  <2>2. QED BY <1>1, <1>2, <2>1
<1>3. CASE m > 0
  <2>1. m - 1 \in Nat /\ m - 1 <= n /\ ~(m <= m - 1) BY <1>1, <1>3
  <2>2. m - 1 \notin B BY <1>1, <2>1
  <2>3. PICK g : Is(m - 1, g) BY <2>1, <2>2
  <2>4. m - 1 \in 0 .. m - 1 /\ g[m - 1] \in S /\ m \in 1 .. n
    BY <1>1, <1>3, <2>3
  <2> DEFINE last == G[m][g[m - 1]]
  <2>5. last \in S BY <2>4
  <2> HIDE DEF last
  <2> DEFINE f == [i \in 0 .. m |-> IF i = m THEN last ELSE g[i]]
  <2>6. \A i \in 0 .. m : i # m => i \in 0 .. m - 1 /\ g[i] \in S BY <1>1, <2>3
  <2>7. f \in [0 .. m -> S] BY <2>5, <2>6
  <2>8. \A i \in 0 .. m - 1 : f[i] = g[i] BY <1>1, <1>3
  <2>9. f[m] = last /\ f[0] = base BY <1>1, <1>3, <2>3, <2>8
  <2> HIDE DEF f
  <2>10. ASSUME NEW i \in 1 .. m PROVE f[i] = G[i][f[i - 1]]
    <3>1. i - 1 \in 0 .. m - 1 /\ f[i - 1] = g[i - 1] BY <1>1, <2>8
    <3>2. CASE i = m BY <2>9, <3>1, <3>2 DEF last
    <3>3. CASE i # m
      <4>1. i \in 1 .. m - 1 /\ i \in 0 .. m - 1 BY <1>1, <3>3
      <4>2. QED BY <2>3, <2>8, <3>1, <4>1
    <3>4. QED BY <3>2, <3>3
  <2>11. Is(m, f) BY <2>7, <2>9, <2>10
  <2>12. QED BY <1>1, <2>11
<1>4. QED BY <1>1, <1>2, <1>3

\* The bytes of the first k lines of c, and what is shipped of them.
Before(c) ==
  LET upTo[k \in 0 .. Len(c.lines)] ==
        IF k = 0 THEN <<>> ELSE upTo[k - 1] \o Append(c.lines[k], Y!Newline)
  IN upTo
Wanted(c) ==
  LET upTo[k \in 0 .. Len(c.lines)] ==
        IF k = 0 THEN <<>>
        ELSE IF c.lines[k] = <<>> THEN upTo[k - 1] ELSE Append(upTo[k - 1], c.lines[k])
  IN upTo
More(s, line) == IF line = <<>> THEN s ELSE Append(s, line)
EndAt(c, k) == Len(Before(c)[k])

\* They are sequences, each is the one before it and a line.
LEMMA BeforeIs ==
  ASSUME NEW c, c.lines \in Seq(Seq(Nat))
  PROVE  /\ Before(c) \in [0 .. Len(c.lines) -> Seq(Nat)] /\ Before(c)[0] = <<>>
         /\ \A k \in 1 .. Len(c.lines) : Before(c)[k] = Before(c)[k - 1] \o Append(c.lines[k], Y!Newline)
<1> DEFINE n == Len(c.lines)
           S == Seq(Nat)
           G == [k \in 1 .. n |-> [s \in S |-> s \o Append(c.lines[k], Y!Newline)]]
           Is(g) == g = [k \in 0 .. n |-> IF k = 0 THEN <<>> ELSE g[k - 1] \o Append(c.lines[k], Y!Newline)]
<1>1. n \in Nat /\ <<>> \in S BY LenProperties
<1>2. \A k \in 1 .. n : Append(c.lines[k], Y!Newline) \in S
  <2>1. Y!Newline \in Nat BY DEF Y!Newline
  <2>2. QED BY <2>1, ElementOfSeq, AppendProperties
<1>3. \A k \in 1 .. n : \A s \in S : s \o Append(c.lines[k], Y!Newline) \in S BY <1>2, ConcatProperties
<1> HIDE DEF S, n
<1>4. /\ G \in [1 .. n -> [S -> S]]
      /\ \A k \in 1 .. n : \A s \in S : G[k][s] = s \o Append(c.lines[k], Y!Newline)
  <2> DEFINE next(k, s) == s \o Append(c.lines[k], Y!Newline)
  <2>1. \A k \in 1 .. n : \A s \in S : next(k, s) \in S BY <1>3
  <2>2. G = [k \in 1 .. n |-> [s \in S |-> next(k, s)]] OBVIOUS
  <2> HIDE DEF next, G
  <2>3. /\ G \in [1 .. n -> [S -> S]]
        /\ \A k \in 1 .. n : \A s \in S : G[k][s] = next(k, s)
    BY <2>1, <2>2
  <2>4. QED BY <2>3 DEF next
<1> HIDE DEF G
<1> DEFINE nil == <<>>
<1>n. nil \in S BY <1>1
<1> HIDE DEF nil
<1>5. PICK f : f \in [0 .. n -> S] /\ f[0] = nil /\ \A i \in 1 .. n : f[i] = G[i][f[i - 1]]
  <2>1. G \in [1 .. n -> [S -> S]] BY <1>4
  <2>2. n \in Nat BY <1>1
  <2>3. QED BY ONLY <1>n, <2>1, <2>2, Recursion
<1>6. \A i \in 1 .. n : i - 1 \in 0 .. n /\ f[i - 1] \in S BY <1>1, <1>5
<1>7. Is(f)
  <2> DEFINE h == [k \in 0 .. n |-> IF k = 0 THEN <<>> ELSE f[k - 1] \o Append(c.lines[k], Y!Newline)]
  <2>1. \A k \in 0 .. n : f[k] = h[k]
    <3> SUFFICES ASSUME NEW k \in 0 .. n PROVE f[k] = h[k] OBVIOUS
    <3>1. CASE k = 0 BY <1>5, <3>1 DEF nil
    <3>2. CASE k # 0
      <4>1. k \in 1 .. n BY <1>1, <3>2
      <4>2. f[k] = f[k - 1] \o Append(c.lines[k], Y!Newline) BY <1>4, <1>5, <1>6, <4>1
      <4>3. QED BY <3>2, <4>2
    <3>3. QED BY <3>1, <3>2
  <2>2. f = [k \in 0 .. n |-> f[k]] BY <1>5
  <2>3. f = h BY <2>1, <2>2
  <2>4. QED BY <2>3
<1>8. Is(Before(c)) BY <1>7 DEF Before, n
<1> DEFINE b == Before(c)
<1> HIDE DEF b
<1>9. b = [k \in 0 .. n |-> IF k = 0 THEN <<>> ELSE b[k - 1] \o Append(c.lines[k], Y!Newline)]
  BY <1>8 DEF b
<1>10. /\ b[0] = <<>>
       /\ \A k \in 1 .. n : b[k] = b[k - 1] \o Append(c.lines[k], Y!Newline)
  <2>1. 0 \in 0 .. n /\ \A k \in 1 .. n : k \in 0 .. n /\ k # 0 BY <1>1
  <2>2. QED BY <1>9, <2>1
<1>11. b \in [0 .. n -> S]
  <2> DEFINE C == {k \in Nat : k <= n /\ b[k] \notin S}
  <2>1. C = {}
    <3> SUFFICES ASSUME C # {} PROVE FALSE OBVIOUS
    <3>1. PICK m \in C : \A k \in C : m <= k BY LeastNatural
    <3>2. m # 0 BY <1>1, <1>10, <3>1
    <3>3. m - 1 \in Nat /\ m - 1 <= n /\ ~(m <= m - 1) /\ m \in 1 .. n BY <1>1, <3>1, <3>2
    <3>4. b[m - 1] \in S BY <3>1, <3>3
    <3>5. b[m] \in S BY <1>3, <1>10, <3>3, <3>4
    <3>6. QED BY <3>1, <3>5
  <2>2. \A k \in 0 .. n : b[k] \in S BY <1>1, <2>1
  <2>3. b = [k \in 0 .. n |-> b[k]] BY <1>9
  <2>4. QED BY <2>2, <2>3
<1>12. QED BY <1>10, <1>11 DEF b, n, S

\* So is what is shipped, without the empty lines.
LEMMA WantedIs ==
  ASSUME NEW c, c.lines \in Seq(Seq(Nat))
  PROVE  /\ Wanted(c) \in [0 .. Len(c.lines) -> Seq(Seq(Nat))] /\ Wanted(c)[0] = <<>>
         /\ \A k \in 1 .. Len(c.lines) : Wanted(c)[k] = More(Wanted(c)[k - 1], c.lines[k])
<1> DEFINE n == Len(c.lines)
           S == Seq(Seq(Nat))
           G == [k \in 1 .. n |-> [s \in S |-> More(s, c.lines[k])]]
           Is(g) == g = [k \in 0 .. n |-> IF k = 0 THEN <<>> ELSE More(g[k - 1], c.lines[k])]
<1>1. n \in Nat /\ <<>> \in S BY LenProperties
<1>2. \A k \in 1 .. n : c.lines[k] \in Seq(Nat) BY ElementOfSeq
<1>3. \A k \in 1 .. n : \A s \in S : More(s, c.lines[k]) \in S BY <1>2, AppendProperties DEF More
<1> HIDE DEF S, n
<1>4. /\ G \in [1 .. n -> [S -> S]]
      /\ \A k \in 1 .. n : \A s \in S : G[k][s] = More(s, c.lines[k])
  <2> DEFINE next(k, s) == More(s, c.lines[k])
  <2>1. \A k \in 1 .. n : \A s \in S : next(k, s) \in S BY <1>3
  <2>2. G = [k \in 1 .. n |-> [s \in S |-> next(k, s)]] OBVIOUS
  <2> HIDE DEF next, G
  <2>3. /\ G \in [1 .. n -> [S -> S]]
        /\ \A k \in 1 .. n : \A s \in S : G[k][s] = next(k, s)
    BY <2>1, <2>2
  <2>4. QED BY <2>3 DEF next
<1> HIDE DEF G
<1> DEFINE nil == <<>>
<1>n. nil \in S BY <1>1
<1> HIDE DEF nil
<1>5. PICK f : f \in [0 .. n -> S] /\ f[0] = nil /\ \A i \in 1 .. n : f[i] = G[i][f[i - 1]]
  <2>1. G \in [1 .. n -> [S -> S]] BY <1>4
  <2>2. n \in Nat BY <1>1
  <2>3. QED BY ONLY <1>n, <2>1, <2>2, Recursion
<1>6. \A i \in 1 .. n : i - 1 \in 0 .. n /\ f[i - 1] \in S BY <1>1, <1>5
<1>7. Is(f)
  <2> DEFINE h == [k \in 0 .. n |-> IF k = 0 THEN <<>> ELSE More(f[k - 1], c.lines[k])]
  <2>1. \A k \in 0 .. n : f[k] = h[k]
    <3> SUFFICES ASSUME NEW k \in 0 .. n PROVE f[k] = h[k] OBVIOUS
    <3>1. CASE k = 0 BY <1>5, <3>1 DEF nil
    <3>2. CASE k # 0
      <4>1. k \in 1 .. n BY <1>1, <3>2
      <4>2. f[k] = More(f[k - 1], c.lines[k]) BY <1>4, <1>5, <1>6, <4>1
      <4>3. QED BY <3>2, <4>2
    <3>3. QED BY <3>1, <3>2
  <2>2. f = [k \in 0 .. n |-> f[k]] BY <1>5
  <2>3. f = h BY <2>1, <2>2
  <2>4. QED BY <2>3
<1>8. Is(Wanted(c)) BY <1>7 DEF Wanted, More, n
<1> DEFINE b == Wanted(c)
<1> HIDE DEF b
<1>9. b = [k \in 0 .. n |-> IF k = 0 THEN <<>> ELSE More(b[k - 1], c.lines[k])]
  BY <1>8 DEF b
<1>10. /\ b[0] = <<>>
       /\ \A k \in 1 .. n : b[k] = More(b[k - 1], c.lines[k])
  <2>1. 0 \in 0 .. n /\ \A k \in 1 .. n : k \in 0 .. n /\ k # 0 BY <1>1
  <2>2. QED BY <1>9, <2>1
<1>11. b \in [0 .. n -> S]
  <2> DEFINE C == {k \in Nat : k <= n /\ b[k] \notin S}
  <2>1. C = {}
    <3> SUFFICES ASSUME C # {} PROVE FALSE OBVIOUS
    <3>1. PICK m \in C : \A k \in C : m <= k BY LeastNatural
    <3>2. m # 0 BY <1>1, <1>10, <3>1
    <3>3. m - 1 \in Nat /\ m - 1 <= n /\ ~(m <= m - 1) /\ m \in 1 .. n BY <1>1, <3>1, <3>2
    <3>4. b[m - 1] \in S BY <3>1, <3>3
    <3>5. b[m] \in S BY <1>3, <1>10, <3>3, <3>4
    <3>6. QED BY <3>1, <3>5
  <2>2. \A k \in 0 .. n : b[k] \in S BY <1>1, <2>1
  <2>3. b = [k \in 0 .. n |-> b[k]] BY <1>9
  <2>4. QED BY <2>2, <2>3
<1>12. QED BY <1>10, <1>11 DEF b, n, S

\* What the sender writes, and what is shipped of it.
LEMMA StreamIs ==
  ASSUME NEW c
  PROVE  /\ Y!StreamOf(c) = IF c.kind = "udp" THEN c.lines ELSE Before(c)[Len(c.lines)] \o c.rest
         /\ c = yConf => Y!Complete = Wanted(c)[Len(c.lines)]
<1>1. Y!StreamOf(c) = IF c.kind = "udp" THEN c.lines ELSE Before(c)[Len(c.lines)] \o c.rest
  BY DEF Y!StreamOf, Before
<1>2. Y!Complete = Wanted(yConf)[Len(yConf.lines)] BY DEF Y!Complete, Wanted
<1>3. QED BY <1>1, <1>2

\* The types of what is sent.
LEMMA ConfIs ==
  ASSUME NEW c, Y!IsConf(c)
  PROVE  /\ c.lines \in Seq(Seq(Nat)) /\ c.rest \in Seq(Nat) /\ Len(c.lines) \in Nat
         /\ c.kind # "udp" => c.lines \in Seq(Seq(Nat \ {0})) /\ c.rest \in Seq(Nat \ {0})
<1>1. /\ c.kind = "udp" => c.lines \in Seq(Seq(Nat)) /\ c.rest \in Seq(Nat)
      /\ c.kind # "udp" => c.lines \in Seq(Seq(Nat \ {0})) /\ c.rest \in Seq(Nat \ {0})
  BY DEF Y!IsConf, Y!Newline
<1>2. Nat \ {0} \subseteq Nat OBVIOUS
<1>3. Seq(Nat \ {0}) \subseteq Seq(Nat) BY <1>2, SeqMonotonic
<1>4. Seq(Seq(Nat \ {0})) \subseteq Seq(Seq(Nat)) BY <1>3, SeqMonotonic
<1>5. QED BY <1>1, <1>3, <1>4, LenProperties

\* The bytes of the first lines come first.
LEMMA BeforeGrows ==
  ASSUME NEW c, c.lines \in Seq(Seq(Nat)), NEW m \in 0 .. Len(c.lines), NEW k \in m .. Len(c.lines)
  PROVE  /\ EndAt(c, m) \in Nat /\ EndAt(c, k) \in Nat /\ EndAt(c, m) <= EndAt(c, k)
         /\ \A j \in 1 .. EndAt(c, m) : Before(c)[k][j] = Before(c)[m][j]
<1> DEFINE n == Len(c.lines)
           b == Before(c)
           Grown(i) == Len(b[m]) <= Len(b[i]) /\ \A j \in 1 .. Len(b[m]) : b[i][j] = b[m][j]
           B == {i \in Nat : m <= i /\ i <= n /\ ~Grown(i)}
<1>1. n \in Nat /\ m \in Nat /\ k \in Nat /\ m <= k /\ k <= n BY LenProperties
<1>2. \A i \in 0 .. n : b[i] \in Seq(Nat) /\ Len(b[i]) \in Nat
  <2>1. \A i \in 0 .. n : b[i] \in Seq(Nat) BY BeforeIs
  <2>2. QED BY <2>1, LenProperties
<1>3. \A i \in 1 .. n : b[i] = b[i - 1] \o Append(c.lines[i], Y!Newline) BY BeforeIs
<1>4. \A i \in 1 .. n : Append(c.lines[i], Y!Newline) \in Seq(Nat)
  <2>1. Y!Newline \in Nat BY DEF Y!Newline
  <2>2. QED BY <2>1, ElementOfSeq, AppendProperties
<1> HIDE DEF b, n
<1>5. Grown(k)
  <2> SUFFICES ASSUME ~Grown(k) PROVE FALSE OBVIOUS
  <2>1. k \in B BY <1>1
  <2>2. PICK i \in B : \A l \in B : i <= l BY <2>1, LeastNatural
  <2>3. i # m
    <3>1. Grown(m) BY <1>1, <1>2
    <3>2. QED BY <2>2, <3>1
  <2>4. i - 1 \in Nat /\ m <= i - 1 /\ i - 1 <= n /\ ~(i <= i - 1) BY <1>1, <2>2, <2>3
  <2>5. Grown(i - 1) BY <2>2, <2>4
  <2>6. i \in 1 .. n /\ i - 1 \in 0 .. n /\ m \in 0 .. n BY <1>1, <2>2, <2>4
  <2>7. /\ \A j \in 1 .. Len(b[i - 1]) : b[i][j] = b[i - 1][j]
        /\ Len(b[i]) \in Nat /\ Len(b[i - 1]) <= Len(b[i])
    <3>1. b[i - 1] \in Seq(Nat) /\ Append(c.lines[i], Y!Newline) \in Seq(Nat) BY <1>2, <1>4, <2>6
    <3>2. b[i] = b[i - 1] \o Append(c.lines[i], Y!Newline) BY <1>3, <2>6
    <3> DEFINE u == b[i - 1]
               more == Append(c.lines[i], Y!Newline)
               w == b[i]
    <3>3. u \in Seq(Nat) /\ more \in Seq(Nat) /\ w = u \o more BY <3>1, <3>2
    <3> HIDE DEF u, more, w
    <3>4. /\ Len(w) = Len(u) + Len(more) /\ Len(more) \in Nat /\ Len(u) \in Nat
          /\ \A j \in 1 .. Len(u) : w[j] = u[j]
      BY ONLY <3>3, ConcatIs
    <3>5. Len(w) \in Nat /\ Len(u) <= Len(w) BY <3>4
    <3>6. QED BY <3>4, <3>5 DEF u, w
  <2>8. /\ Len(b[i - 1]) \in Nat /\ Len(b[m]) \in Nat
        /\ Len(b[m]) <= Len(b[i - 1]) /\ \A j \in 1 .. Len(b[m]) : b[i - 1][j] = b[m][j]
    BY <1>2, <2>5, <2>6
  <2>9. Grown(i)
    <3>1. \A j \in 1 .. Len(b[m]) : j \in 1 .. Len(b[i - 1]) BY <2>8
    <3>2. \A j \in 1 .. Len(b[m]) : b[i][j] = b[m][j] BY <2>7, <2>8, <3>1
    <3>3. Len(b[m]) <= Len(b[i]) BY <2>7, <2>8
    <3>4. QED BY <3>2, <3>3
  <2>10. QED BY <2>2, <2>9
<1>6. k \in 0 .. n /\ m \in 0 .. n BY <1>1
<1>7. QED BY <1>2, <1>5, <1>6 DEF b, EndAt

\* Where the lines are in the stream: a newline ends each, and no other byte is one.
LEMMA LinesPlaced ==
  ASSUME NEW c, Y!IsConf(c), c.kind # "udp"
  PROVE  LET n == Len(c.lines)
             stream == Y!StreamOf(c)
         IN /\ stream \in Seq(Nat) /\ EndAt(c, 0) = 0
            /\ \A k \in 0 .. n : EndAt(c, k) \in Nat /\ EndAt(c, k) <= Len(stream)
            /\ \A k \in 1 .. n :
                 /\ EndAt(c, k) = EndAt(c, k - 1) + Len(c.lines[k]) + 1
                 /\ stream[EndAt(c, k)] = Y!Newline
                 /\ \A j \in 1 .. Len(c.lines[k]) :
                      stream[EndAt(c, k - 1) + j] = c.lines[k][j] /\ c.lines[k][j] # Y!Newline
            /\ \A p \in EndAt(c, n) + 1 .. Len(stream) : stream[p] # Y!Newline
<1> DEFINE n == Len(c.lines)
           b == Before(c)
           stream == Y!StreamOf(c)
<1>1. /\ c.lines \in Seq(Seq(Nat)) /\ c.rest \in Seq(Nat) /\ n \in Nat
      /\ c.lines \in Seq(Seq(Nat \ {0})) /\ c.rest \in Seq(Nat \ {0})
  BY ConfIs
<1>2. stream = b[n] \o c.rest BY StreamIs
<1>3. /\ \A k \in 0 .. n : b[k] \in Seq(Nat)
      /\ b[0] = <<>>
      /\ \A k \in 1 .. n : b[k] = b[k - 1] \o Append(c.lines[k], Y!Newline)
  BY <1>1, BeforeIs
<1>4. \A k \in 1 .. n : /\ c.lines[k] \in Seq(Nat) /\ Len(c.lines[k]) \in Nat
                        /\ \A j \in 1 .. Len(c.lines[k]) : c.lines[k][j] # 0
  <2>1. \A k \in 1 .. n : c.lines[k] \in Seq(Nat) /\ c.lines[k] \in Seq(Nat \ {0}) BY <1>1, ElementOfSeq
  <2>2. QED BY <2>1, LenProperties, ElementOfSeq
<1>5. \A j \in 1 .. Len(c.rest) : c.rest[j] # 0 BY <1>1, ElementOfSeq
<1>6. \A k \in 0 .. n : /\ Len(b[k]) \in Nat /\ Len(b[k]) <= Len(b[n])
                        /\ \A j \in 1 .. Len(b[k]) : b[n][j] = b[k][j]
  <2> SUFFICES ASSUME NEW k \in 0 .. n PROVE /\ Len(b[k]) \in Nat /\ Len(b[k]) <= Len(b[n])
                                             /\ \A j \in 1 .. Len(b[k]) : b[n][j] = b[k][j]
    OBVIOUS
  <2>1. n \in k .. n BY <1>1
  <2>2. QED BY <1>1, <2>1, BeforeGrows DEF EndAt
<1> HIDE DEF b, n, stream
<1>7. /\ b[n] \in Seq(Nat) /\ n \in 0 .. n /\ 0 \in 0 .. n BY <1>1, <1>3
<1>8. /\ stream \in Seq(Nat) /\ Len(stream) = Len(b[n]) + Len(c.rest) /\ Len(c.rest) \in Nat
      /\ Len(stream) \in Nat /\ Len(b[n]) <= Len(stream)
      /\ \A j \in 1 .. Len(b[n]) : stream[j] = b[n][j]
      /\ \A j \in Len(b[n]) + 1 .. Len(stream) : stream[j] = c.rest[j - Len(b[n])]
  <2> DEFINE u == b[n]
             rest == c.rest
  <2>1. u \in Seq(Nat) /\ rest \in Seq(Nat) /\ stream = u \o rest BY <1>1, <1>2, <1>7
  <2> HIDE DEF u, rest
  <2>2. /\ stream \in Seq(Nat) /\ Len(stream) = Len(u) + Len(rest) /\ Len(rest) \in Nat
        /\ \A j \in 1 .. Len(u) : stream[j] = u[j]
        /\ \A j \in Len(u) + 1 .. Len(stream) : stream[j] = rest[j - Len(u)]
        /\ Len(u) \in Nat
    BY ONLY <2>1, ConcatIs
  <2>3. Len(stream) \in Nat /\ Len(u) <= Len(stream) BY <2>2
  <2>4. QED BY <2>2, <2>3 DEF u, rest
<1>9. \A k \in 0 .. n : /\ Len(b[k]) \in Nat /\ Len(b[k]) <= Len(stream)
                        /\ \A j \in 1 .. Len(b[k]) : stream[j] = b[k][j]
  <2>1. ASSUME NEW k \in 0 .. n PROVE Len(b[k]) \in Nat /\ Len(b[k]) <= Len(b[n]) /\ Len(b[n]) \in Nat BY <1>6, <1>7
  <2>2. ASSUME NEW k \in 0 .. n, NEW j \in 1 .. Len(b[k]) PROVE stream[j] = b[k][j]
    <3>1. j \in 1 .. Len(b[n]) BY <2>1
    <3>2. QED BY <1>6, <1>8, <3>1
  <2>3. ASSUME NEW k \in 0 .. n PROVE Len(b[k]) \in Nat /\ Len(b[k]) <= Len(stream)
    <3> DEFINE u == Len(b[k])
               v == Len(b[n])
               w == Len(stream)
    <3>1. u \in Nat /\ v \in Nat /\ w \in Nat /\ u <= v /\ v <= w BY <1>8, <2>1
    <3> HIDE DEF u, v, w
    <3>2. u <= w BY ONLY <3>1
    <3>3. QED BY <3>1, <3>2 DEF u, w
  <2>4. QED BY <2>2, <2>3
<1>10. ASSUME NEW k \in 1 .. n
       PROVE  /\ Len(b[k]) = Len(b[k - 1]) + Len(c.lines[k]) + 1
              /\ stream[Len(b[k])] = Y!Newline
              /\ \A j \in 1 .. Len(c.lines[k]) :
                   stream[Len(b[k - 1]) + j] = c.lines[k][j] /\ c.lines[k][j] # Y!Newline
  <2> DEFINE line == c.lines[k]
             more == Append(line, Y!Newline)
             old == b[k - 1]
             new == b[k]
  <2>1. k - 1 \in 0 .. n /\ k \in 0 .. n /\ Y!Newline = 0 BY <1>1 DEF Y!Newline
  <2>2. /\ line \in Seq(Nat) /\ Len(line) \in Nat /\ \A j \in 1 .. Len(line) : line[j] # 0 BY <1>4
  <2>3. /\ more \in Seq(Nat) /\ Len(more) = Len(line) + 1 /\ more[Len(line) + 1] = 0
        /\ \A j \in 1 .. Len(line) : more[j] = line[j]
    BY <2>1, <2>2, AppendProperties
  <2>4. old \in Seq(Nat) /\ Len(old) \in Nat /\ new = old \o more BY <1>3, <1>9, <2>1
  <2> HIDE DEF line, more, old, new
  <2>5. /\ Len(new) = Len(old) + Len(more)
        /\ \A j \in 1 .. Len(more) : new[Len(old) + j] = more[j]
    <3>1. old \in Seq(Nat) /\ more \in Seq(Nat) /\ new = old \o more BY <2>3, <2>4
    <3>2. QED BY ONLY <3>1, ConcatIs
  <2>6. new[Len(new)] = 0 /\ \A j \in 1 .. Len(line) : new[Len(old) + j] = line[j]
    <3>1. Len(line) + 1 \in 1 .. Len(more) /\ \A j \in 1 .. Len(line) : j \in 1 .. Len(more) BY <2>2, <2>3
    <3>2. new[Len(old) + (Len(line) + 1)] = 0 BY <2>3, <2>5, <3>1
    <3>3. Len(old) + (Len(line) + 1) = Len(new) BY <2>2, <2>3, <2>4, <2>5
    <3>4. QED BY <2>3, <2>5, <3>1, <3>2, <3>3
  <2>7. \A j \in 1 .. Len(new) : stream[j] = new[j] BY <1>9, <2>1 DEF new
  <2>8. /\ Len(new) \in 1 .. Len(new) /\ \A j \in 1 .. Len(line) : Len(old) + j \in 1 .. Len(new)
    BY <2>2, <2>3, <2>4, <2>5
  <2>9. stream[Len(new)] = 0 /\ \A j \in 1 .. Len(line) : stream[Len(old) + j] = line[j]
    BY <2>6, <2>7, <2>8
  <2>10. Len(new) = Len(old) + Len(line) + 1 BY <2>2, <2>3, <2>4, <2>5
  <2>11. QED BY <2>1, <2>2, <2>9, <2>10 DEF line, old, new
<1>11. \A p \in Len(b[n]) + 1 .. Len(stream) : stream[p] # Y!Newline
  <2> SUFFICES ASSUME NEW p \in Len(b[n]) + 1 .. Len(stream) PROVE stream[p] # 0 BY DEF Y!Newline
  <2>1. Len(b[n]) \in Nat BY <1>7, <1>9
  <2>2. p - Len(b[n]) \in 1 .. Len(c.rest)
    <3> DEFINE u == Len(b[n])
               v == Len(c.rest)
    <3>1. u \in Nat /\ v \in Nat /\ Len(stream) = u + v /\ p \in u + 1 .. Len(stream) BY <1>8, <2>1
    <3> HIDE DEF u, v
    <3>2. p - u \in 1 .. v BY ONLY <3>1
    <3>3. QED BY <3>2 DEF u, v
  <2>3. QED BY <1>5, <1>8, <2>2
<1>12. Len(b[0]) = 0 BY <1>3
<1>13. QED BY <1>8, <1>9, <1>10, <1>11, <1>12 DEF b, n, stream, EndAt

\* The next newline behind line k ends line k + 1.
LEMMA NextEnd ==
  ASSUME NEW c, Y!IsConf(c), c.kind # "udp", NEW k \in 0 .. Len(c.lines),
         NEW p \in EndAt(c, k) + 1 .. Len(Y!StreamOf(c)), Y!StreamOf(c)[p] = Y!Newline,
         \A q \in EndAt(c, k) + 1 .. p - 1 : Y!StreamOf(c)[q] # Y!Newline
  PROVE  /\ k + 1 \in 1 .. Len(c.lines) /\ EndAt(c, k + 1) = p
         /\ SubSeq(Y!StreamOf(c), EndAt(c, k) + 1, p - 1) = c.lines[k + 1]
<1> DEFINE n == Len(c.lines)
           stream == Y!StreamOf(c)
           e == EndAt(c, k)
           line == c.lines[k + 1]
<1>1. /\ stream \in Seq(Nat) /\ e \in Nat
      /\ \A j \in 1 .. n :
           /\ EndAt(c, j) = EndAt(c, j - 1) + Len(c.lines[j]) + 1
           /\ stream[EndAt(c, j)] = Y!Newline
           /\ \A i \in 1 .. Len(c.lines[j]) :
                stream[EndAt(c, j - 1) + i] = c.lines[j][i] /\ c.lines[j][i] # Y!Newline
      /\ \A q \in EndAt(c, n) + 1 .. Len(stream) : stream[q] # Y!Newline
  BY LinesPlaced
<1>2. n \in Nat BY ConfIs
<1>3. k # n
  <2> SUFFICES ASSUME k = n PROVE FALSE OBVIOUS
  <2>1. p \in EndAt(c, n) + 1 .. Len(stream) BY Zenon
  <2>2. QED BY <1>1, <2>1
<1>4. k + 1 \in 1 .. n /\ (k + 1) - 1 = k BY <1>2, <1>3
<1>5. line \in Seq(Nat) /\ Len(line) \in Nat
  <2>1. c.lines \in Seq(Seq(Nat)) BY ConfIs
  <2>2. line \in Seq(Nat) BY <1>4, <2>1, ElementOfSeq
  <2>3. QED BY <2>2, LenProperties
<1>6. /\ EndAt(c, k + 1) = e + Len(line) + 1
      /\ stream[EndAt(c, k + 1)] = Y!Newline
      /\ \A i \in 1 .. Len(line) : stream[e + i] = line[i] /\ line[i] # Y!Newline
  <2> DEFINE next == k + 1
  <2>1. next \in 1 .. n /\ next - 1 = k BY <1>4
  <2> HIDE DEF next
  <2>2. /\ EndAt(c, next) = EndAt(c, next - 1) + Len(c.lines[next]) + 1
        /\ stream[EndAt(c, next)] = Y!Newline
        /\ \A i \in 1 .. Len(c.lines[next]) :
             stream[EndAt(c, next - 1) + i] = c.lines[next][i] /\ c.lines[next][i] # Y!Newline
    BY <1>1, <2>1
  <2>3. EndAt(c, next - 1) = e BY <2>1
  <2>4. QED BY <2>2, <2>3 DEF next
<1>7. p \in Int /\ p >= e + 1 /\ stream[p] = Y!Newline /\ \A q \in e + 1 .. p - 1 : stream[q] # Y!Newline
  BY <1>1
<1> HIDE DEF line, e, stream, n
<1>8. ~(p < e + Len(line) + 1)
  <2> SUFFICES ASSUME p < e + Len(line) + 1 PROVE FALSE OBVIOUS
  <2>1. p - e \in 1 .. Len(line) /\ e + (p - e) = p BY <1>1, <1>5, <1>7
  <2>2. QED BY <1>6, <1>7, <2>1
<1>9. ~(p > e + Len(line) + 1)
  <2> SUFFICES ASSUME p > e + Len(line) + 1 PROVE FALSE OBVIOUS
  <2>1. e + Len(line) + 1 \in e + 1 .. p - 1 BY <1>1, <1>5, <1>7
  <2>2. QED BY <1>6, <1>7, <2>1
<1>10. p = e + Len(line) + 1
  <2> DEFINE l == Len(line)
  <2>1. l \in Nat /\ e \in Nat /\ p \in Int /\ ~(p < e + l + 1) /\ ~(p > e + l + 1)
    BY <1>1, <1>5, <1>7, <1>8, <1>9
  <2> HIDE DEF l
  <2>2. p = e + l + 1 BY ONLY <2>1
  <2>3. QED BY <2>2 DEF l
<1>11. SubSeq(stream, e + 1, p - 1) = line
  <2>1. e + 1 \in Int /\ p - 1 \in Int /\ p - 1 = e + Len(line) BY <1>1, <1>5, <1>10
  <2>2. \A i \in e + 1 .. p - 1 : stream[i] \in Nat
    <3> SUFFICES ASSUME NEW i \in e + 1 .. p - 1 PROVE stream[i] \in Nat OBVIOUS
    <3>1. i - e \in 1 .. Len(line) /\ e + (i - e) = i BY <1>1, <1>5, <2>1
    <3>2. stream[i] = line[i - e] BY <1>6, <3>1
    <3>3. QED BY <1>5, <3>1, <3>2, ElementOfSeq
  <2> DEFINE u == SubSeq(stream, e + 1, p - 1)
  <2>3. /\ u \in Seq(Nat)
        /\ Len(u) = IF e + 1 <= p - 1 THEN p - 1 - (e + 1) + 1 ELSE 0
        /\ \A i \in 1 .. p - 1 - (e + 1) + 1 : u[i] = stream[e + 1 + i - 1]
    BY <2>1, <2>2, SubSeqProperties
  <2> HIDE DEF u
  <2>4. Len(u) = Len(line) /\ p - 1 - (e + 1) + 1 = Len(line) BY <1>1, <1>5, <2>1, <2>3
  <2>5. ASSUME NEW i \in 1 .. Len(u) PROVE u[i] = line[i]
    <3>1. i \in 1 .. Len(line) /\ e + 1 + i - 1 = e + i BY <1>1, <2>4
    <3>2. u[i] = stream[e + i] BY <2>3, <2>4, <3>1
    <3>3. QED BY <1>6, <3>1, <3>2
  <2>6. u = line BY <1>5, <2>3, <2>4, <2>5, SeqEqual
  <2>7. QED BY <2>6 DEF u
<1>12. QED BY <1>4, <1>6, <1>10, <1>11 DEF line, e, stream, n

\* What is sent has a length.
LEMMA StreamLength == ASSUME NEW c, Y!IsConf(c) PROVE Len(Y!StreamOf(c)) \in Nat
<1>1. CASE c.kind = "udp"
  <2>1. Y!StreamOf(c) = c.lines BY <1>1, StreamIs
  <2>2. QED BY <2>1, ConfIs
<1>2. CASE c.kind # "udp"
  <2>1. Y!StreamOf(c) \in Seq(Nat) BY <1>2, LinesPlaced
  <2>2. QED BY <2>1, LenProperties
<1>3. QED BY <1>1, <1>2

-----------------------------------------------------------------------------
(***************************************************************************)
(* syslog and stdin.                                                       *)
(***************************************************************************)
\* A connection is accepted before its reader starts; one that has read something after
\* Close began does not read again.
LastReadInv ==
  /\ yAcceptor = "start" => yAccepted \in Conns
  /\ \A c \in Conns :
       /\ yReads[c] <= 1 /\ (yIsRunning => yReads[c] = 0)
       /\ yReads[c] = 1 => yReader[c] # "read"

SyslogInv == Y!TypeOK /\ LastReadInv

\* The first state.
LEMMA SyslogInit == Y!Init => SyslogInv
<1> SUFFICES ASSUME Y!Init PROVE SyslogInv OBVIOUS
<1>1. yConf \in SyslogConfs /\ Y!IsConf(yConf) BY SyslogAssumption DEF Y!Init
<1>2. Len(Y!Stream) \in Nat BY <1>1, StreamLength DEF Y!Stream
<1>3. /\ yIsRunning = TRUE /\ yStopped = FALSE /\ yLossy = {} /\ yListener = "open" /\ yCloser = "no"
      /\ yAcceptor \in {"check", "done"} /\ yAccepted = Y!None
  BY DEF Y!Init
<1>4. /\ yPeer \in [Conns -> {"no", "open", "shut"}] /\ yReader \in [Conns -> {"no", "check", "read", "lines", "done"}]
      /\ yReads = [c \in Conns |-> 0]
  BY DEF Y!Init
<1>5. ySent = [c \in Conns |-> 0] /\ yGot = [c \in Conns |-> 0] BY DEF Y!Init
<1>6. Y!TypeOK
  <2>1. ySent \in [Conns -> 0 .. Len(Y!Stream)] /\ yGot \in [Conns -> Nat] /\ yReads \in [Conns -> Nat] BY <1>2, <1>4, <1>5
  <2>2. \A c \in Conns : yGot[c] <= ySent[c] BY <1>5
  <2>3. {yIsRunning, yStopped} \subseteq BOOLEAN BY <1>3
  <2>4. QED BY <2>1, <2>2, <2>3, <1>1, <1>3, <1>4 DEF Y!TypeOK
<1>7. LastReadInv BY <1>3, <1>4 DEF LastReadInv
<1>8. QED BY <1>6, <1>7 DEF SyslogInv

\* A step of main's goroutines, of a sender or of Close.
LEMMA SyslogOthers ==
  ASSUME SyslogInv,
         Y!Acceptor \/ Y!Closer \/ Y!CloseFlag \/ UNCHANGED Y!vars \/ \E c \in Conns : Y!Dial(c) \/ Y!Send(c) \/ Y!Shut(c)
  PROVE  SyslogInv'
<1>t. Y!TypeOK /\ LastReadInv BY DEF SyslogInv
<1>l. Len(Y!Stream) \in Nat BY <1>t, StreamLength DEF Y!TypeOK, Y!Stream
<1>1. UNCHANGED <<yConf, yGot, yReads, yLossy>>
  BY DEF Y!Acceptor, Y!Closer, Y!CloseFlag, Y!vars, Y!Dial, Y!Send, Y!Shut, Y!CheckRunning, Y!Accept, Y!AcceptFails,
         Y!StartReader, Y!CloseAccepted, Y!CloseListener, Y!CloseClient, Y!readVars, Y!netVars, Y!CloseUnchanged
<1>s. UNCHANGED Y!Stream BY <1>1 DEF Y!Stream
<1>2. CASE \E c \in Conns : Y!Dial(c) \/ Y!Send(c) \/ Y!Shut(c)
  <2>1. PICK c \in Conns : Y!Dial(c) \/ Y!Send(c) \/ Y!Shut(c) BY <1>2
  <2>2. UNCHANGED <<yIsRunning, yListener, yAcceptor, yAccepted, yReader, yCloser, yStopped>>
    BY <2>1 DEF Y!Dial, Y!Send, Y!Shut, Y!readVars
  <2>3. yPeer' \in [Conns -> {"no", "open", "shut"}] BY <2>1, <1>t DEF Y!Dial, Y!Send, Y!Shut, Y!TypeOK
  <2>4. ySent' \in [Conns -> 0 .. Len(Y!Stream)] /\ \A d \in Conns : yGot[d] <= ySent'[d]
    <3>1. CASE ySent' = ySent BY <3>1, <1>t DEF Y!TypeOK
    <3>2. CASE Y!Send(c) BY <3>2, <1>t, <1>l DEF Y!Send, Y!TypeOK
    <3>3. QED BY <3>1, <3>2, <2>1 DEF Y!Dial, Y!Shut
  <2>5. QED BY <2>2, <2>3, <2>4, <1>1, <1>s, <1>t DEF SyslogInv, Y!TypeOK, LastReadInv
<1>3. CASE Y!Acceptor \/ Y!Closer \/ Y!CloseFlag \/ UNCHANGED Y!vars
  <2> USE DEF Y!Acceptor, Y!Closer, Y!CloseFlag, Y!vars, Y!CheckRunning, Y!Accept, Y!AcceptFails, Y!StartReader,
              Y!CloseAccepted, Y!CloseListener, Y!CloseClient, Y!readVars, Y!netVars, Y!CloseUnchanged
  <2>1. UNCHANGED ySent BY <1>3
  <2>2. yIsRunning' = yIsRunning \/ yIsRunning' = FALSE BY <1>3
  <2>3. yStopped' = yStopped \/ yStopped' = (yStopped \/ ~yIsRunning) \/ yStopped' = TRUE BY <1>3
  <2>4. /\ yListener' \in {"open", "closed"} /\ yCloser' \in {"no", "listener", "drain", "closed"}
        /\ yAcceptor' \in {"check", "accept", "start", "done"} /\ yAccepted' \in Conns \union {Y!None}
    BY <1>3, <1>t DEF Y!TypeOK
  <2>5. yPeer' \in [Conns -> {"no", "open", "shut"}]
    BY <1>3, <1>t DEF Y!TypeOK, LastReadInv
  <2>6. /\ yReader' \in [Conns -> {"no", "check", "read", "lines", "done"}]
        /\ \A c \in Conns : yReader'[c] \in {yReader[c], "check", "done"}
    BY <1>3, <1>t DEF Y!TypeOK, LastReadInv
  <2>7. yAcceptor' = "start" => yAccepted' \in Conns BY <1>3, <1>t DEF LastReadInv
  <2>8. {yIsRunning', yStopped'} \subseteq BOOLEAN BY <2>2, <2>3, <1>t DEF Y!TypeOK
  <2>9. Y!TypeOK' BY <2>1, <2>4, <2>5, <2>6, <2>8, <1>1, <1>s, <1>t DEF Y!TypeOK
  <2>10. LastReadInv'
    <3>1. yIsRunning' => yIsRunning BY <2>2
    <3>2. QED BY <3>1, <2>6, <2>7, <1>1, <1>t DEF LastReadInv
  <2>11. QED BY <2>9, <2>10 DEF SyslogInv
<1>4. QED BY <1>2, <1>3

\* A step of a reader.
LEMMA SyslogReader == ASSUME SyslogInv, NEW c \in Conns, Y!Reader(c) PROVE SyslogInv'
<1>t. Y!TypeOK /\ LastReadInv BY DEF SyslogInv
<1>1. UNCHANGED <<yConf, yIsRunning, yListener, yAcceptor, yAccepted, ySent, yCloser>>
  BY DEF Y!Reader, Y!CheckReader, Y!ReadFails, Y!Read, Y!NoMoreLines, Y!EmptyLine, Y!Ship, Y!BufferFull, Y!ShipFails,
         Y!ReadUnchanged, Y!LineUnchanged
<1>s. UNCHANGED Y!Stream BY <1>1 DEF Y!Stream
<1>2. CASE \E n \in 1 .. (ySent[c] - yGot[c]) : Y!Read(c, n)
  <2>1. PICK n \in 1 .. (ySent[c] - yGot[c]) : Y!Read(c, n) BY <1>2
  <2>2. /\ yReader[c] = "read" /\ yGot' = [yGot EXCEPT ![c] = @ + n] /\ yReader' = [yReader EXCEPT ![c] = "lines"]
        /\ yReads' = [yReads EXCEPT ![c] = IF yIsRunning THEN @ ELSE @ + 1] /\ UNCHANGED <<yPeer, yStopped>>
    BY <2>1 DEF Y!Read
  <2>3. yLossy' \in SUBSET Conns
    <3>1. yLossy' = yLossy \/ yLossy' = yLossy \union {c} BY <2>1 DEF Y!Read
    <3>2. QED BY <3>1, <1>t DEF Y!TypeOK
  <2>4. yGot' \in [Conns -> Nat] /\ yReads' \in [Conns -> Nat] /\ \A d \in Conns : yGot'[d] <= ySent[d]
    BY <2>1, <2>2, <1>t DEF Y!TypeOK
  <2>5. Y!TypeOK' BY <2>2, <2>3, <2>4, <1>1, <1>s, <1>t DEF Y!TypeOK
  <2>6. yReads[c] = 0 BY <2>2, <1>t DEF LastReadInv, Y!TypeOK
  <2>7. LastReadInv' BY <2>2, <2>6, <1>1, <1>t DEF LastReadInv, Y!TypeOK
  <2>8. QED BY <2>5, <2>7 DEF SyslogInv
<1>3. CASE Y!CheckReader(c) \/ Y!ReadFails(c) \/ Y!NoMoreLines(c) \/ Y!EmptyLine(c) \/ Y!Ship(c) \/ Y!BufferFull(c) \/ Y!ShipFails(c)
  <2> USE DEF Y!CheckReader, Y!ReadFails, Y!NoMoreLines, Y!EmptyLine, Y!Ship, Y!BufferFull, Y!ShipFails, Y!ReadUnchanged,
              Y!LineUnchanged, Y!Ends, Y!NextLine
  <2>1. UNCHANGED <<yGot, yReads>> BY <1>3
  <2>2. yLossy' = yLossy \/ yLossy' = yLossy \union {c} BY <1>3
  <2>3. yStopped' = yStopped \/ yStopped' = (yStopped \/ yConf.kind # "tcp") BY <1>3
  <2>4. yPeer' = yPeer \/ yPeer' = [yPeer EXCEPT ![c] = "shut"] BY <1>3
  <2>5. \/ yReader' = yReader \/ yReader' = [yReader EXCEPT ![c] = "check"] \/ yReader' = [yReader EXCEPT ![c] = "done"]
        \/ yIsRunning /\ yReader' = [yReader EXCEPT ![c] = "read"]
    BY <1>3
  <2>6. {yIsRunning', yStopped'} \subseteq BOOLEAN BY <2>3, <1>1, <1>t DEF Y!TypeOK
  <2>7. yPeer' \in [Conns -> {"no", "open", "shut"}] /\ yReader' \in [Conns -> {"no", "check", "read", "lines", "done"}]
    BY <2>4, <2>5, <1>t DEF Y!TypeOK
  <2>8. Y!TypeOK' BY <2>1, <2>2, <2>6, <2>7, <1>1, <1>s, <1>t DEF Y!TypeOK
  <2>9. LastReadInv' BY <2>1, <2>5, <1>1, <1>t DEF LastReadInv, Y!TypeOK
  <2>10. QED BY <2>8, <2>9 DEF SyslogInv
<1>4. QED BY <1>2, <1>3 DEF Y!Reader

\* Every step keeps the invariant.
LEMMA SyslogStep == SyslogInv /\ [Y!Next]_Y!vars => SyslogInv'
BY SyslogOthers, SyslogReader DEF Y!Next, Y!Waiting

-----------------------------------------------------------------------------
(***************************************************************************)
(* A read: what the loop of Add makes of the next n bytes.                 *)
(***************************************************************************)

\* The bytes of a read.
Data(c, g, n) == SubSeq(Y!StreamOf(c), g + 1, g + n)

\* The loop has reported the lines up to m and waits for the next newline.
Open(c, k, g, m, s) ==
  \/ m = k /\ s.start = 1 /\ s.cur = SubSeq(Y!StreamOf(c), EndAt(c, k) + 1, g)
  \/ m # k /\ s.start = EndAt(c, m) - g + 1 /\ s.start > 1 /\ s.cur = <<>>

\* Some of the lines, and one more.
LEMMA AppendLine ==
  ASSUME NEW S, NEW lines \in Seq(S), NEW last \in 1 .. Len(lines), NEW first \in 1 .. last
  PROVE  /\ SubSeq(lines, first, last) \in Seq(S) /\ SubSeq(lines, first, last - 1) \in Seq(S)
         /\ SubSeq(lines, first, last) = Append(SubSeq(lines, first, last - 1), lines[last])
<1>1. Len(lines) \in Nat /\ \A j \in 1 .. Len(lines) : lines[j] \in S BY LenProperties, ElementOfSeq
<1>2. first \in 1 .. Len(lines) /\ last \in first .. Len(lines) BY <1>1
<1>3. SubSeq(lines, first, last) = SubSeq(lines, first, last - 1) \o << lines[last] >>
  BY <1>2, SubSeqRecursiveSecond
<1>4. SubSeq(lines, first, last) \in Seq(S) /\ SubSeq(lines, first, last - 1) \in Seq(S)
  <2>1. \A j \in first .. last : lines[j] \in S BY <1>1
  <2>2. first \in Int /\ last \in Int /\ last - 1 \in Int /\ \A j \in first .. last - 1 : j \in first .. last BY <1>1
  <2>3. QED BY <2>1, <2>2, SubSeqProperties
<1>5. lines[last] \in S BY <1>1
<1> DEFINE u == SubSeq(lines, first, last - 1)
           x == lines[last]
           w == SubSeq(lines, first, last)
<1>6. u \in Seq(S) /\ x \in S /\ w = u \o <<x>> BY <1>3, <1>4, <1>5
<1> HIDE DEF u, x, w
<1>7. w = Append(u, x) BY <1>6, AppendIsConcat
<1>8. QED BY <1>4, <1>7 DEF u, x, w

\* f holds the variables of the loop after each turn.
LineStart(kept) == [start |-> 1, cur |-> kept, report |-> <<>>, err |-> FALSE]
IsLoop(kept, data, n, f) ==
  f = [i \in 0 .. n |-> IF i = 0 THEN LineStart(kept) ELSE Y!Tokenizer(kept)!Step(data, i, f[i - 1])]

\* The loop can be run for any number of turns.
LEMMA LoopExists ==
  ASSUME NEW kept, NEW data, NEW n \in Nat
  PROVE  \E f : IsLoop(kept, data, n, f)
<1> DEFINE step(i, s) == Y!Tokenizer(kept)!Step(data, i, s)
           Is(m, f) == f = [i \in 0 .. m |-> IF i = 0 THEN LineStart(kept) ELSE step(i, f[i - 1])]
           B == {m \in Nat : ~\E f : Is(m, f)}
<1>0. \A f : Is(n, f) => IsLoop(kept, data, n, f) BY DEF IsLoop
<1> HIDE DEF step
<1> SUFFICES ASSUME B # {} PROVE FALSE BY <1>0
<1>1. PICK m \in B : \A k \in B : m <= k BY LeastNatural
<1>2. CASE m = 0
  <2> DEFINE f == [i \in 0 .. 0 |-> LineStart(kept)]
  <2>1. Is(0, f) OBVIOUS
  <2>2. QED BY <1>1, <1>2, <2>1
<1>3. CASE m > 0
  <2>1. m - 1 \in Nat /\ m - 1 \notin B BY <1>1, <1>3
  <2>2. PICK g : Is(m - 1, g) BY <2>1
  <2> DEFINE f == [i \in 0 .. m |-> IF i = m THEN step(m, g[m - 1]) ELSE g[i]]
  <2>3. \A i \in 0 .. m - 1 : g[i] = IF i = 0 THEN LineStart(kept) ELSE step(i, g[i - 1]) BY <2>2
  <2>4. \A i \in 0 .. m - 1 : i \in 0 .. m /\ i # m /\ (i # 0 => i - 1 \in 0 .. m - 1)
    BY <1>1, <1>3
  <2>5. /\ f[m] = step(m, g[m - 1]) /\ f = [i \in 0 .. m |-> f[i]]
        /\ \A i \in 0 .. m - 1 : f[i] = g[i]
    BY <1>1, <2>4
  <2>6. m - 1 \in 0 .. m - 1 /\ m # 0 /\ f[m - 1] = g[m - 1] BY <1>1, <1>3, <2>4, <2>5
  <2> HIDE DEF f
  <2>7. \A i \in 0 .. m : f[i] = IF i = 0 THEN LineStart(kept) ELSE step(i, f[i - 1])
    <3> SUFFICES ASSUME NEW i \in 0 .. m
                 PROVE  f[i] = IF i = 0 THEN LineStart(kept) ELSE step(i, f[i - 1])
      OBVIOUS
    <3>1. CASE i = m BY <2>5, <2>6, <3>1
    <3>2. CASE i # m
      <4>1. i \in 0 .. m - 1 BY <1>1, <3>2
      <4>2. f[i] = g[i] /\ (i # 0 => f[i - 1] = g[i - 1]) BY <2>4, <2>5, <4>1
      <4>3. QED BY <2>3, <4>1, <4>2
    <3>3. QED BY <3>1, <3>2
  <2>8. Is(m, f) BY <2>5, <2>7
  <2>9. QED BY <1>1, <2>8
<1>4. QED BY <1>1, <1>2, <1>3

\* What Add leaves is what the loop has after the last byte.
LEMMA ScanIsLoop ==
  ASSUME NEW kept, NEW S, NEW data \in Seq(S)
  PROVE  \E f : IsLoop(kept, data, Len(data), f) /\ Y!Tokenizer(kept)!Scan(data) = f[Len(data)]
<1>1. Len(data) \in Nat BY LenProperties
<1> DEFINE f == CHOOSE f : IsLoop(kept, data, Len(data), f)
<1>2. IsLoop(kept, data, Len(data), f) BY <1>1, LoopExists
<1>3. Y!Tokenizer(kept)!Scan(data) = f[Len(data)] BY DEF Y!Tokenizer!Scan, IsLoop, LineStart
<1>4. QED BY <1>2, <1>3

\* After i turns s has reported the lines that end in the first g + i bytes.
LineVars == [start : Int, cur : Seq(Nat), report : Seq(Seq(Nat)), err : BOOLEAN]
Scanned(c, k, g, n, i, s, m) ==
  /\ s \in LineVars /\ s.err = FALSE
  /\ s.report = SubSeq(c.lines, k + 1, m)
  /\ EndAt(c, m) <= g + i
  /\ \A q \in EndAt(c, m) + 1 .. g + i : Y!StreamOf(c)[q] # Y!Newline
  /\ i = n => s.cur = SubSeq(Y!StreamOf(c), EndAt(c, m) + 1, g + n)
  /\ i # n => Open(c, k, g, m, s)

\* What is added for a newline is what stands before it, unless that is a single byte.
LEMMA SegmentIs ==
  ASSUME NEW kept, NEW data \in Seq(Nat), ~Y!Tokenizer(kept)!HasShortSegment(data),
         NEW i \in 1 .. Len(data), data[i] = Y!Newline, NEW start \in 1 .. i,
         start = 1 \/ data[start - 1] = Y!Newline, \A j \in start .. i - 1 : data[j] # Y!Newline
  PROVE  Y!Tokenizer(kept)!Segment(data, start, i) = SubSeq(data, start, i - 1)
<1>1. Len(data) \in Nat /\ i \in Int /\ start \in Int BY LenProperties
<1>2. CASE i - 1 > start BY <1>2 DEF Y!Tokenizer!Segment
<1>3. CASE i - 1 = start
  <2>1. start \in 1 .. Len(data) - 1 /\ data[start] # Y!Newline /\ data[start + 1] = Y!Newline
    BY <1>1, <1>3
  <2>2. QED BY <2>1 DEF Y!Tokenizer!HasShortSegment
<1>4. CASE i - 1 < start
  <2>1. SubSeq(data, start, i - 1) = <<>> BY <1>1, <1>4, SubSeqEmpty
  <2>2. QED BY <1>1, <1>4, <2>1 DEF Y!Tokenizer!Segment
<1>5. QED BY <1>1, <1>2, <1>3, <1>4

AfterNewline(s, i, line) == [s EXCEPT !.start = i + 1, !.cur = <<>>, !.report = Append(s.report, line)]
AfterLast(s, cur) == [s EXCEPT !.cur = cur]
LastPiece(data, s, i) == SubSeq(data, s.start, i)

\* The turn for a newline, for another byte, and for another byte that is the last one.
LEMMA StepIs ==
  ASSUME NEW kept, NEW data \in Seq(Nat), NEW i \in 1 .. Len(data), NEW s \in LineVars, s.err = FALSE
  PROVE  Y!Tokenizer(kept)!Step(data, i, s) =
           IF data[i] = Y!Newline THEN AfterNewline(s, i, s.cur \o Y!Tokenizer(kept)!Segment(data, s.start, i))
           ELSE IF i < Len(data) THEN s ELSE AfterLast(s, s.cur \o LastPiece(data, s, i))
<1>1. ~Y!Tokenizer(kept)!OverLimit(s.cur) BY DEF Y!Tokenizer!OverLimit
<1>2. \A x : ~Y!Tokenizer(kept)!OverLimit(x) BY DEF Y!Tokenizer!OverLimit
<1> DEFINE over(x) == Y!Tokenizer(kept)!OverLimit(x)
           piece == Y!Tokenizer(kept)!Segment(data, s.start, i)
           reported(r, x) == Y!Tokenizer(kept)!Reported(r, x)
           isToken == data[i] = Y!Newline
           grown == s.cur \o IF isToken THEN piece ELSE SubSeq(data, s.start, i)
<1>3. Y!Tokenizer(kept)!Step(data, i, s) =
        IF s.err \/ (~isToken /\ i < Len(data)) THEN s
        ELSE IF over(grown) THEN [s EXCEPT !.err = TRUE, !.cur = <<>>, !.report = <<>>]
        ELSE IF isToken
             THEN [s EXCEPT !.start = i + 1, !.cur = <<>>, !.report = reported(@, grown)]
             ELSE [s EXCEPT !.cur = grown]
  BY DEF Y!Tokenizer!Step
<1>4. \A r, x : reported(r, x) = Append(r, x) BY DEF Y!Tokenizer!Reported
<1>5. \A x : ~over(x) BY <1>2
<1>6. Len(data) \in Nat /\ i \in Int BY LenProperties
<1> HIDE DEF over, piece, reported
<1>7. CASE data[i] = Y!Newline
  <2> DEFINE l == s.cur \o piece
  <2> SUFFICES Y!Tokenizer(kept)!Step(data, i, s) =
                 [s EXCEPT !.start = i + 1, !.cur = <<>>, !.report = Append(s.report, l)]
    BY <1>7 DEF piece, AfterNewline
  <2>1. grown = l BY <1>7
  <2> HIDE DEF grown, l
  <2>2. QED BY <1>3, <1>4, <1>5, <1>7, <2>1
<1>8. CASE data[i] # Y!Newline /\ i < Len(data)
  <2>1. Y!Tokenizer(kept)!Step(data, i, s) = s BY <1>3, <1>8
  <2>2. i # Len(data) BY <1>6, <1>8
  <2>3. QED BY <1>8, <2>1, <2>2
<1>9. CASE data[i] # Y!Newline /\ i = Len(data)
  <2>1. ~(i < Len(data)) BY <1>6, <1>9
  <2> DEFINE l == s.cur \o SubSeq(data, s.start, i)
  <2> SUFFICES Y!Tokenizer(kept)!Step(data, i, s) = [s EXCEPT !.cur = l]
    BY <1>9, <2>1 DEF AfterLast, LastPiece
  <2>2. grown = l BY <1>9
  <2> HIDE DEF grown, l
  <2>3. QED BY <1>3, <1>5, <1>9, <2>1, <2>2
<1>10. i < Len(data) \/ i = Len(data) BY <1>6
<1>11. QED BY <1>7, <1>8, <1>9, <1>10

\* A turn.
LEMMA LineTurn ==
  ASSUME NEW c, Y!IsConf(c), c.kind # "udp", NEW k \in 0 .. Len(c.lines), NEW g \in Nat,
         NEW n \in Nat \ {0}, g + n <= Len(Y!StreamOf(c)), EndAt(c, k) <= g, NEW kept,
         ~Y!Tokenizer(kept)!HasShortSegment(Data(c, g, n)),
         NEW i \in 1 .. n, NEW s, NEW m \in k .. Len(c.lines), Scanned(c, k, g, n, i - 1, s, m)
  PROVE  LET t == Y!Tokenizer(kept)!Step(Data(c, g, n), i, s)
         IN \E r \in k .. Len(c.lines) : Scanned(c, k, g, n, i, t, r)
<1> DEFINE stream == Y!StreamOf(c)
           L == Len(c.lines)
           data == Data(c, g, n)
           e == EndAt(c, m)
           t == Y!Tokenizer(kept)!Step(data, i, s)
<1>1. /\ stream \in Seq(Nat) /\ Len(stream) \in Nat /\ \A j \in 1 .. Len(stream) : stream[j] \in Nat
      /\ L \in Nat /\ m \in 0 .. L /\ e \in Nat /\ c.lines \in Seq(Seq(Nat))
      /\ m # 0 => stream[e] = Y!Newline
  <2>1. L \in Nat /\ c.lines \in Seq(Seq(Nat)) BY ConfIs
  <2>2. m \in 0 .. L /\ (m # 0 => m \in 1 .. L) BY <2>1
  <2>3. /\ stream \in Seq(Nat) /\ e \in Nat /\ (m # 0 => stream[e] = Y!Newline)
    BY <2>2, LinesPlaced
  <2>4. QED BY <2>1, <2>2, <2>3, LenProperties, ElementOfSeq
<1>2. /\ s \in LineVars /\ s.err = FALSE /\ s.report = SubSeq(c.lines, k + 1, m)
      /\ e <= g + (i - 1)
      /\ \A q \in e + 1 .. g + (i - 1) : stream[q] # Y!Newline
      /\ i - 1 # n
      /\ Open(c, k, g, m, s)
  BY DEF Scanned
<1>3. /\ data \in Seq(Nat) /\ Len(data) = n /\ \A j \in 1 .. n : data[j] = stream[g + j]
  <2>1. \A j \in g + 1 .. g + n : stream[j] \in Nat BY <1>1
  <2> DEFINE u == SubSeq(stream, g + 1, g + n)
             l == (g + n) - (g + 1) + 1
  <2>2. u \in Seq(Nat) /\ Len(u) = (IF g + 1 <= g + n THEN l ELSE 0) /\ \A j \in 1 .. l : u[j] = stream[g + 1 + j - 1]
    BY <2>1, SubSeqProperties
  <2>3. l = n /\ g + 1 <= g + n /\ \A j \in 1 .. n : g + 1 + j - 1 = g + j OBVIOUS
  <2>4. data = u BY DEF Data
  <2> HIDE DEF data, u, l
  <2>5. QED BY <2>2, <2>3, <2>4
<1> DEFINE start == s.start
           cur == s.cur
<1> HIDE DEF stream, e, L
<1>4. /\ start \in Int /\ start >= 1 /\ start <= i
      /\ \/ start = 1 /\ e <= g /\ cur = SubSeq(stream, e + 1, g) /\ m = k
         \/ start = e - g + 1 /\ start > 1 /\ cur = <<>> /\ m # k
  <2>1. start \in Int BY <1>2 DEF LineVars
  <2>2. CASE m = k /\ start = 1 /\ cur = SubSeq(stream, e + 1, g) BY <2>2 DEF e
  <2>3. CASE m # k /\ start = e - g + 1 /\ start > 1 /\ cur = <<>> BY <1>1, <1>2, <2>1, <2>3
  <2>4. QED BY <1>2, <2>2, <2>3 DEF Open, stream, e
<1> HIDE DEF data, start, cur, t
<1>5. start = 1 \/ data[start - 1] = Y!Newline
  <2> SUFFICES ASSUME start # 1 PROVE data[start - 1] = Y!Newline OBVIOUS
  <2>1. start - 1 \in 1 .. n /\ g + (start - 1) = e /\ m # 0 BY <1>1, <1>4
  <2>2. data[start - 1] = stream[e] BY <1>3, <2>1
  <2>3. QED BY <1>1, <2>1, <2>2
<1>6. \A j \in start .. i - 1 : data[j] # Y!Newline
  <2> SUFFICES ASSUME NEW j \in start .. i - 1 PROVE data[j] # Y!Newline OBVIOUS
  <2>1. j \in 1 .. n /\ g + j \in e + 1 .. g + (i - 1) BY <1>1, <1>4
  <2>2. QED BY <1>2, <1>3, <2>1
<1>7. \A j \in start - 1 .. n : \A l : l = cur \o SubSeq(data, start, j) => l = SubSeq(stream, e + 1, g + j)
  <2> SUFFICES ASSUME NEW j \in start - 1 .. n
               PROVE  cur \o SubSeq(data, start, j) = SubSeq(stream, e + 1, g + j)
    OBVIOUS
  <2>d. data = SubSeq(stream, g + 1, g + n) BY DEF data, Data, stream
  <2>e. stream \in Seq(Nat) /\ g + n <= Len(stream) /\ e \in Nat /\ start \in Int BY <1>1, <1>4 DEF stream
  <2> USE <2>e
  <2>0. Len(stream) \in Nat /\ \A q \in 1 .. Len(stream) : stream[q] \in Nat BY LenProperties, ElementOfSeq
  <2>1. j \in Int /\ start - 1 <= j /\ j <= n OBVIOUS
  <2>2. ASSUME start >= 1, j >= start PROVE SubSeq(data, start, j) = SubSeq(stream, g + start, g + j)
    <3>1. /\ g + 1 \in 1 .. Len(stream) /\ g + n \in 1 .. Len(stream)
          /\ start \in 1 .. (g + n) - (g + 1) + 1 /\ j \in 1 .. (g + n) - (g + 1) + 1
      BY <2>0, <2>1, <2>2
    <3>2. SubSeq(data, start, j) = SubSeq(stream, (g + 1) + start - 1, (g + 1) + j - 1)
      BY <2>d, <3>1, SubSeqOfSubSeq
    <3>3. (g + 1) + start - 1 = g + start /\ (g + 1) + j - 1 = g + j BY <2>1
    <3>4. QED BY <3>2, <3>3
  <2>3. ASSUME j < start PROVE SubSeq(data, start, j) = <<>> BY <2>1, <2>3, SubSeqEmpty
  <2>4. CASE start = 1 /\ e <= g /\ cur = SubSeq(stream, e + 1, g)
    <3>1. cur \in Seq(Nat) /\ cur \o <<>> = cur
      <4>1. \A q \in e + 1 .. g : stream[q] \in Nat BY <2>0
      <4>2. cur \in Seq(Nat) BY <2>4, <4>1, SubSeqProperties
      <4>3. QED BY <4>2, ConcatEmptySeq
    <3>2. CASE j = 0
      <4>1. SubSeq(data, start, j) = <<>> BY <2>3, <2>4, <3>2
      <4>2. g + j = g BY <3>2
      <4>3. QED BY <2>4, <3>1, <4>1, <4>2
    <3>3. CASE j # 0
      <4>1. j >= start BY <2>1, <2>4, <3>3
      <4>2. SubSeq(data, start, j) = SubSeq(stream, g + 1, g + j) BY <2>2, <2>4, <4>1
      <4> DEFINE size == Len(stream)
      <4>a. size \in Nat /\ g + n <= size /\ g \in Nat /\ e \in Nat /\ e <= g /\ j \in Int /\ j >= 1 /\ j <= n /\ n \in Nat
        BY <2>0, <2>1, <2>4, <4>1
      <4> HIDE DEF size
      <4>b. e + 1 \in 1 .. size + 1 /\ g \in (e + 1) - 1 .. size /\ g + j \in g .. size BY ONLY <4>a
      <4>3. e + 1 \in 1 .. Len(stream) + 1 /\ g \in (e + 1) - 1 .. Len(stream) /\ g + j \in g .. Len(stream)
        BY <4>b DEF size
      <4>4. SubSeq(stream, e + 1, g) \o SubSeq(stream, g + 1, g + j) = SubSeq(stream, e + 1, g + j)
        BY <4>3, ConcatAdjacentSubSeq, Zenon
      <4>5. QED BY <2>4, <4>2, <4>4
    <3>4. QED BY <3>2, <3>3
  <2>5. CASE start = e - g + 1 /\ start > 1 /\ cur = <<>>
    <3>1. SubSeq(data, start, j) = SubSeq(stream, e + 1, g + j)
      <4>1. CASE j < start
        <5>1. g + j < e + 1 /\ g + j \in Int /\ e + 1 \in Int BY <2>1, <2>5, <4>1
        <5>2. SubSeq(stream, e + 1, g + j) = <<>> BY <5>1, SubSeqEmpty
        <5>3. QED BY <2>3, <4>1, <5>2
      <4>2. CASE j >= start
        <5>1. g + start = e + 1 BY <2>5
        <5>2. QED BY <2>2, <2>5, <4>2, <5>1
      <4>3. QED BY <2>1, <4>1, <4>2
    <3>2. SubSeq(stream, e + 1, g + j) \in Seq(Nat)
      <4>1. \A q \in e + 1 .. g + j : stream[q] \in Nat BY <2>0, <2>1
      <4>2. QED BY <2>1, <4>1, SubSeqProperties
    <3>3. <<>> \o SubSeq(stream, e + 1, g + j) = SubSeq(stream, e + 1, g + j) BY <3>2, ConcatEmptySeq
    <3>4. QED BY <2>5, <3>1, <3>3
  <2>6. QED BY <1>4, <2>4, <2>5
<1>8. i \in 1 .. Len(data) /\ Len(data) = n /\ ~Y!Tokenizer(kept)!HasShortSegment(data)
  BY <1>3 DEF data
<1> DEFINE piece == Y!Tokenizer(kept)!Segment(data, start, i)
<1>9. /\ data[i] = Y!Newline => \A l : l = cur \o piece => t = AfterNewline(s, i, l)
      /\ data[i] # Y!Newline /\ i < n => t = s
      /\ data[i] # Y!Newline /\ i = n => \A l : l = cur \o SubSeq(data, start, i) => t = AfterLast(s, l)
  <2> DEFINE d == data
             z == Y!Tokenizer(kept)!Step(d, i, s)
             segment == Y!Tokenizer(kept)!Segment(d, s.start, i)
  <2>1. d \in Seq(Nat) /\ i \in 1 .. Len(d) /\ Len(d) = n BY <1>3, <1>8
  <2> HIDE DEF d
  <2>2. /\ d[i] = Y!Newline => \A l : l = s.cur \o segment => z = AfterNewline(s, i, l)
        /\ d[i] # Y!Newline /\ i < n => z = s
        /\ d[i] # Y!Newline /\ i = n => \A l : l = s.cur \o SubSeq(d, s.start, i) => z = AfterLast(s, l)
    <3>1. s \in LineVars /\ s.err = FALSE BY <1>2
    <3>2. z = IF d[i] = Y!Newline THEN AfterNewline(s, i, s.cur \o segment)
              ELSE IF i < Len(d) THEN s ELSE AfterLast(s, s.cur \o LastPiece(d, s, i))
      BY ONLY <2>1, <3>1, StepIs
    <3>3. i = n => ~(i < Len(d)) BY <2>1
    <3> DEFINE u == s.cur \o segment
               v == s.cur \o LastPiece(d, s, i)
    <3> HIDE DEF z, segment
    <3>4. v = s.cur \o SubSeq(d, s.start, i) BY DEF LastPiece
    <3>5. d[i] = Y!Newline => z = AfterNewline(s, i, u) BY <3>2
    <3>6. d[i] # Y!Newline => (i < Len(d) => z = s) /\ (~(i < Len(d)) => z = AfterLast(s, v)) BY <3>2
    <3> HIDE DEF v
    <3>7. QED BY <2>1, <3>3, <3>4, <3>5, <3>6
  <2>3. QED BY <2>1, <2>2 DEF d, t, start, cur
<1> HIDE DEF piece
<1>10. CASE data[i] = Y!Newline
  <2>1. piece = SubSeq(data, start, i - 1)
    <3>1. start \in 1 .. i BY <1>4
    <3>2. QED BY <1>3, <1>5, <1>6, <1>8, <1>10, <3>1, SegmentIs DEF piece
  <2> DEFINE p == g + i
             line == c.lines[m + 1]
             from == e + 1
  <2>2. p \in e + 1 .. Len(stream) /\ p - 1 = g + (i - 1) /\ stream[p] = Y!Newline
    <3> DEFINE u == Len(stream)
    <3>1. u \in Nat /\ g + n <= u /\ e \in Nat /\ e <= g + (i - 1) BY <1>1, <1>2 DEF stream
    <3> HIDE DEF u
    <3>2. p \in e + 1 .. u /\ p - 1 = g + (i - 1) BY <3>1
    <3>3. stream[p] = data[i] BY <1>3
    <3>4. QED BY <1>10, <3>2, <3>3 DEF u
  <2>3. \A q \in e + 1 .. p - 1 : stream[q] # Y!Newline BY <1>2, <2>2
  <2> HIDE DEF p
  <2>4. m + 1 \in 1 .. L /\ EndAt(c, m + 1) = p /\ SubSeq(stream, e + 1, p - 1) = line
    <3>1. m \in 0 .. Len(c.lines) BY <1>1 DEF L
    <3>2. p \in EndAt(c, m) + 1 .. Len(Y!StreamOf(c)) /\ Y!StreamOf(c)[p] = Y!Newline
      BY <2>2 DEF e, stream
    <3>3. \A q \in EndAt(c, m) + 1 .. p - 1 : Y!StreamOf(c)[q] # Y!Newline BY <2>3 DEF e, stream
    <3>4. QED BY <3>1, <3>2, <3>3, NextEnd DEF e, stream, L
  <2> HIDE DEF line, from
  <2>5. \A l : l = cur \o piece => l = line
    <3>1. i - 1 \in start - 1 .. n BY <1>4
    <3>2. \A l : l = cur \o SubSeq(data, start, i - 1) => l = SubSeq(stream, e + 1, g + (i - 1)) BY <1>7, <3>1
    <3>3. SubSeq(stream, e + 1, g + (i - 1)) = line BY <2>2, <2>4
    <3>4. QED BY <2>1, <3>2, <3>3
  <2> DEFINE report == SubSeq(c.lines, k + 1, m + 1)
  <2>6. report = Append(s.report, line) /\ report \in Seq(Seq(Nat))
    <3> DEFINE first == k + 1
               last == m + 1
    <3>1. last \in 1 .. Len(c.lines) /\ first \in 1 .. last /\ last - 1 = m BY <1>1, <2>4 DEF L
    <3> HIDE DEF first, last
    <3>2. /\ SubSeq(c.lines, first, last) = Append(SubSeq(c.lines, first, last - 1), c.lines[last])
          /\ SubSeq(c.lines, first, last) \in Seq(Seq(Nat))
      BY <1>1, <3>1, AppendLine
    <3>3. QED BY <1>2, <3>1, <3>2 DEF line, first, last
  <2> HIDE DEF report
  <2>7. t = AfterNewline(s, i, line)
    <3> DEFINE l == cur \o piece
    <3>1. l = line /\ t = AfterNewline(s, i, l) BY <1>9, <1>10, <2>5
    <3> HIDE DEF l
    <3>2. QED BY <3>1
  <2>8. /\ t \in LineVars /\ t.err = FALSE
        /\ t.start = i + 1 /\ t.cur = <<>> /\ t.report = report
    <3>1. s \in [start : Int, cur : Seq(Nat), report : Seq(Seq(Nat)), err : BOOLEAN] /\ s.err = FALSE
      BY <1>2 DEF LineVars
    <3>2. t = [s EXCEPT !.start = i + 1, !.cur = <<>>, !.report = report] BY <2>6, <2>7 DEF AfterNewline
    <3>3. <<>> \in Seq(Nat) /\ i + 1 \in Int OBVIOUS
    <3>4. QED BY <2>6, <3>1, <3>2, <3>3 DEF LineVars
  <2>9. p = g + i /\ p \in Nat BY DEF p
  <2>10. i = n => t.cur = SubSeq(stream, p + 1, g + n)
    <3> SUFFICES ASSUME i = n PROVE t.cur = SubSeq(stream, p + 1, g + n) OBVIOUS
    <3>1. g + n < p + 1 /\ g + n \in Int /\ p + 1 \in Int BY <2>9
    <3>2. SubSeq(stream, p + 1, g + n) = <<>> BY <3>1, SubSeqEmpty
    <3>3. QED BY <2>8, <3>2
  <2> DEFINE r == m + 1
  <2>11. r \in k .. L /\ r # k BY <1>1, <2>4
  <2>12. EndAt(c, r) = p /\ t.report = SubSeq(c.lines, k + 1, r) BY <2>4, <2>8 DEF report
  <2> HIDE DEF r
  <2>13. Open(c, k, g, r, t)
    <3>1. i + 1 = p - g + 1 /\ i + 1 > 1 BY <2>9
    <3>2. t.start = EndAt(c, r) - g + 1 /\ t.start > 1 BY <2>8, <2>12, <3>1
    <3>3. QED BY <2>8, <2>11, <3>2 DEF Open
  <2>14. EndAt(c, r) <= g + i /\ \A q \in EndAt(c, r) + 1 .. g + i : Y!StreamOf(c)[q] # Y!Newline
    BY <2>9, <2>12
  <2>15. Scanned(c, k, g, n, i, t, r) BY <2>8, <2>10, <2>12, <2>13, <2>14 DEF Scanned, stream
  <2>16. QED BY <2>11, <2>15 DEF L, t, data
<1>11. CASE data[i] # Y!Newline
  <2>1. e <= g + i /\ \A q \in e + 1 .. g + i : stream[q] # Y!Newline
    <3>1. stream[g + i] # Y!Newline BY <1>3, <1>11
    <3>2. \A q \in e + 1 .. g + i : q = g + i \/ q \in e + 1 .. g + (i - 1) BY <1>1
    <3>3. \A q \in e + 1 .. g + i : stream[q] # Y!Newline BY <1>2, <3>1, <3>2
    <3>4. e <= g + i
      <4>1. e \in Nat /\ e <= g + (i - 1) /\ i \in Int BY <1>1, <1>2
      <4>2. QED BY <4>1
    <3>5. QED BY <3>3, <3>4
  <2>2. CASE i < n
    <3>1. t = s /\ i # n BY <1>9, <1>11, <2>2
    <3>2. Scanned(c, k, g, n, i, s, m) BY <1>2, <2>1, <3>1 DEF Scanned, stream, e
    <3>3. QED BY <3>1, <3>2 DEF t, data
  <2>3. CASE i = n
    <3> DEFINE l == cur \o SubSeq(data, start, i)
    <3>1. t = AfterLast(s, l) BY <1>9, <1>11, <2>3
    <3>2. l = SubSeq(stream, e + 1, g + n)
      <4>1. i \in start - 1 .. n BY <1>4
      <4>2. \A x : x = cur \o SubSeq(data, start, i) => x = SubSeq(stream, e + 1, g + i) BY <1>7, <4>1
      <4>3. QED BY <2>3, <4>2
    <3>3. l \in Seq(Nat)
      <4>1. \A q \in e + 1 .. g + n : q \in 1 .. Len(stream) BY <1>1 DEF stream
      <4>2. \A q \in e + 1 .. g + n : stream[q] \in Nat BY <1>1, <4>1
      <4>3. e + 1 \in Int /\ g + n \in Int BY <1>1
      <4>4. QED BY <3>2, <4>2, <4>3, SubSeqProperties
    <3> HIDE DEF l
    <3>4. /\ t \in LineVars /\ t.err = FALSE /\ t.report = s.report /\ t.cur = l
      <4>1. s \in [start : Int, cur : Seq(Nat), report : Seq(Seq(Nat)), err : BOOLEAN] /\ s.err = FALSE
        BY <1>2 DEF LineVars
      <4>2. t = [s EXCEPT !.cur = l] BY <3>1 DEF AfterLast
      <4>3. QED BY <3>3, <4>1, <4>2 DEF LineVars
    <3>5. Scanned(c, k, g, n, i, t, m) BY <1>2, <2>1, <2>3, <3>2, <3>4 DEF Scanned, stream, e
    <3>6. QED BY <3>5 DEF t, data
  <2>4. QED BY <2>2, <2>3
<1>12. QED BY <1>10, <1>11

\* k lines have been read to their end, and what follows the last of them is kept.
Kept(c, g, kept, k) ==
  IF c.kind = "udp" THEN k = g
  ELSE /\ EndAt(c, k) <= g /\ kept = SubSeq(Y!StreamOf(c), EndAt(c, k) + 1, g)
       /\ \A q \in EndAt(c, k) + 1 .. g : Y!StreamOf(c)[q] # Y!Newline

\* What a read makes of the lines: those that end in it are reported.
LEMMA LinesOfRead ==
  ASSUME NEW c, Y!IsConf(c), c.kind # "udp", NEW k \in 0 .. Len(c.lines), NEW g \in Nat,
         NEW n \in Nat \ {0}, g + n <= Len(Y!StreamOf(c)), NEW kept, Kept(c, g, kept, k),
         ~Y!Tokenizer(kept)!HasShortSegment(Data(c, g, n))
  PROVE  \E m \in k .. Len(c.lines) :
           /\ Y!Tokenizer(kept)!Scan(Data(c, g, n)).report = SubSeq(c.lines, k + 1, m)
           /\ Kept(c, g + n, Y!Tokenizer(kept)!Scan(Data(c, g, n)).cur, m)
<1> DEFINE stream == Y!StreamOf(c)
           L == Len(c.lines)
           data == Data(c, g, n)
<1>1. /\ stream \in Seq(Nat) /\ Len(stream) \in Nat /\ \A j \in 1 .. Len(stream) : stream[j] \in Nat
      /\ L \in Nat /\ c.lines \in Seq(Seq(Nat)) /\ EndAt(c, k) \in Nat
  BY ConfIs, LinesPlaced, LenProperties, ElementOfSeq
<1>k. /\ EndAt(c, k) <= g /\ kept = SubSeq(Y!StreamOf(c), EndAt(c, k) + 1, g)
      /\ \A q \in EndAt(c, k) + 1 .. g : Y!StreamOf(c)[q] # Y!Newline
  BY DEF Kept
<1>2. data \in Seq(Nat) /\ Len(data) = n
  <2>1. \A j \in g + 1 .. g + n : j \in 1 .. Len(stream) BY <1>1
  <2>2. \A j \in g + 1 .. g + n : stream[j] \in Nat BY <1>1, <2>1
  <2> DEFINE u == SubSeq(stream, g + 1, g + n)
  <2>3. u \in Seq(Nat) /\ Len(u) = IF g + 1 <= g + n THEN g + n - (g + 1) + 1 ELSE 0
    BY <2>2, SubSeqProperties
  <2>4. data = u BY DEF Data
  <2> HIDE DEF u, data
  <2>5. QED BY <2>3, <2>4
<1>3. PICK f : IsLoop(kept, data, Len(data), f) /\ Y!Tokenizer(kept)!Scan(data) = f[Len(data)]
  <2> HIDE DEF data
  <2>1. QED BY <1>2, ScanIsLoop
<1>4. /\ f[0] = LineStart(kept)
      /\ \A i \in 1 .. n : f[i] = Y!Tokenizer(kept)!Step(data, i, f[i - 1])
  <2> DEFINE step(i, s) == Y!Tokenizer(kept)!Step(data, i, s)
  <2>1. f = [i \in 0 .. n |-> IF i = 0 THEN LineStart(kept) ELSE step(i, f[i - 1])]
    BY <1>2, <1>3 DEF IsLoop
  <2> HIDE DEF step
  <2>2. 0 \in 0 .. n /\ \A i \in 1 .. n : i \in 0 .. n /\ i # 0 OBVIOUS
  <2>3. f[0] = LineStart(kept) /\ \A i \in 1 .. n : f[i] = step(i, f[i - 1]) BY <2>1, <2>2
  <2>4. QED BY <2>3 DEF step
<1> DEFINE Is(i) == \E m \in k .. L : Scanned(c, k, g, n, i, f[i], m)
           B == {i \in Nat : i <= n /\ ~Is(i)}
<1>5. Is(0)
  <2>1. kept \in Seq(Nat)
    <3>1. \A j \in EndAt(c, k) + 1 .. g : j \in 1 .. Len(stream) BY <1>1, <1>k
    <3>2. \A j \in EndAt(c, k) + 1 .. g : stream[j] \in Nat BY <1>1, <3>1
    <3> DEFINE e == EndAt(c, k)
               from == e + 1
    <3>3. from \in Int /\ g \in Int /\ \A j \in from .. g : stream[j] \in Nat BY <1>1, <3>2
    <3>4. kept = SubSeq(stream, from, g) BY <1>k
    <3> HIDE DEF from, stream
    <3>5. QED BY ONLY <3>3, <3>4, SubSeqProperties
  <2>2. <<>> = SubSeq(c.lines, k + 1, k)
    <3>1. k < k + 1 /\ k \in Int /\ k + 1 \in Int OBVIOUS
    <3>2. QED BY <3>1, SubSeqEmpty
  <2> DEFINE s == f[0]
  <2>3. s = [start |-> 1, cur |-> kept, report |-> <<>>, err |-> FALSE] BY <1>4 DEF LineStart
  <2> HIDE DEF s
  <2>4. s \in LineVars /\ s.err = FALSE /\ s.report = <<>> /\ s.start = 1 /\ s.cur = kept
    <3>1. <<>> \in Seq(Seq(Nat)) OBVIOUS
    <3> DEFINE none == <<>>
    <3>2. s = [start |-> 1, cur |-> kept, report |-> none, err |-> FALSE] /\ none \in Seq(Seq(Nat)) BY <2>3, <3>1
    <3> HIDE DEF none
    <3>3. s \in LineVars /\ s.err = FALSE /\ s.report = none /\ s.start = 1 /\ s.cur = kept
      BY ONLY <2>1, <3>2 DEF LineVars
    <3>4. QED BY <3>3 DEF none
  <2>5. Open(c, k, g, k, s) BY <1>k, <2>4 DEF Open
  <2>6. g + 0 = g /\ 0 # n OBVIOUS
  <2>7. Scanned(c, k, g, n, 0, s, k) BY <1>k, <2>2, <2>4, <2>5, <2>6 DEF Scanned
  <2>8. k \in k .. L BY <1>1
  <2>9. QED BY <2>7, <2>8 DEF s
<1>6. ASSUME NEW i \in 1 .. n, Is(i - 1) PROVE Is(i)
  <2> DEFINE s == f[i - 1]
             t == f[i]
  <2>1. t = Y!Tokenizer(kept)!Step(Data(c, g, n), i, s) BY <1>4
  <2>2. PICK m \in k .. L : Scanned(c, k, g, n, i - 1, s, m) BY <1>6
  <2> HIDE DEF s, t
  <2>3. \E r \in k .. Len(c.lines) : Scanned(c, k, g, n, i, Y!Tokenizer(kept)!Step(Data(c, g, n), i, s), r)
    BY <1>k, <2>2, LineTurn
  <2>4. \E r \in k .. L : Scanned(c, k, g, n, i, t, r) BY <2>1, <2>3
  <2>5. QED BY <2>4 DEF t
<1> HIDE DEF Is
<1>7. Is(n)
  <2> SUFFICES ASSUME ~Is(n) PROVE FALSE OBVIOUS
  <2>1. n \in B OBVIOUS
  <2>2. PICK i \in B : \A j \in B : i <= j BY <2>1, LeastNatural
  <2>3. i # 0 BY <1>5, <2>2
  <2>4. i - 1 \in Nat /\ i - 1 <= n /\ ~(i <= i - 1) /\ i \in 1 .. n BY <2>2, <2>3
  <2>5. Is(i - 1) BY <2>2, <2>4
  <2>6. Is(i) BY <1>6, <2>4, <2>5
  <2>7. QED BY <2>2, <2>6
<1>8. PICK m \in k .. L : Scanned(c, k, g, n, n, f[n], m) BY <1>7 DEF Is
<1>9. Y!Tokenizer(kept)!Scan(data) = f[n] BY <1>2, <1>3
<1> DEFINE s == f[n]
<1> HIDE DEF s
<1>10. /\ s.report = SubSeq(c.lines, k + 1, m)
       /\ s.cur = SubSeq(Y!StreamOf(c), EndAt(c, m) + 1, g + n)
       /\ EndAt(c, m) <= g + n
       /\ \A q \in EndAt(c, m) + 1 .. g + n : Y!StreamOf(c)[q] # Y!Newline
  BY <1>8 DEF Scanned, s
<1>11. Y!Tokenizer(kept)!Scan(Data(c, g, n)) = s BY <1>9 DEF s
<1>12. Kept(c, g + n, s.cur, m) BY <1>10 DEF Kept
<1>13. QED BY <1>10, <1>11, <1>12

\* What is shipped of the first lines comes first.
LEMMA WantedGrows ==
  ASSUME NEW c, c.lines \in Seq(Seq(Nat)), NEW m \in 0 .. Len(c.lines), NEW k \in m .. Len(c.lines)
  PROVE  LET u == Wanted(c)[m]
             v == Wanted(c)[k]
         IN /\ u \in Seq(Seq(Nat)) /\ v \in Seq(Seq(Nat)) /\ Len(u) <= Len(v)
            /\ \A i \in 1 .. Len(u) : v[i] = u[i]
<1> DEFINE n == Len(c.lines)
           b == Wanted(c)
           S == Seq(Nat)
           Grown(i) == Len(b[m]) <= Len(b[i]) /\ \A j \in 1 .. Len(b[m]) : b[i][j] = b[m][j]
           B == {i \in Nat : m <= i /\ i <= n /\ ~Grown(i)}
<1>1. n \in Nat /\ m \in Nat /\ k \in Nat /\ m <= k /\ k <= n BY LenProperties
<1>2. \A i \in 0 .. n : b[i] \in Seq(S) /\ Len(b[i]) \in Nat
  <2>1. \A i \in 0 .. n : b[i] \in Seq(S) BY WantedIs
  <2>2. QED BY <2>1, LenProperties
<1>3. \A i \in 1 .. n : b[i] = More(b[i - 1], c.lines[i]) BY WantedIs
<1>4. \A i \in 1 .. n : c.lines[i] \in S BY ElementOfSeq
<1> HIDE DEF b, n, S
<1>5. ASSUME NEW u \in Seq(S), NEW line \in S
      PROVE  /\ Len(More(u, line)) \in Nat /\ Len(u) \in Nat /\ Len(u) <= Len(More(u, line))
             /\ \A j \in 1 .. Len(u) : More(u, line)[j] = u[j]
  <2>1. Len(u) \in Nat BY LenProperties
  <2>2. CASE line = <<>> BY <2>1, <2>2 DEF More
  <2>3. CASE line # <<>>
    <3> DEFINE w == Append(u, line)
    <3>1. w \in Seq(S) /\ Len(w) = Len(u) + 1 /\ \A j \in 1 .. Len(u) : w[j] = u[j] BY AppendProperties
    <3>2. w = More(u, line) BY <2>3 DEF More
    <3> HIDE DEF w
    <3>3. QED BY <2>1, <3>1, <3>2
  <2>4. QED BY <2>2, <2>3
<1>6. Grown(k)
  <2> SUFFICES ASSUME ~Grown(k) PROVE FALSE OBVIOUS
  <2>1. k \in B BY <1>1
  <2>2. PICK i \in B : \A l \in B : i <= l BY <2>1, LeastNatural
  <2>3. i # m
    <3>1. Grown(m) BY <1>1, <1>2
    <3>2. QED BY <2>2, <3>1
  <2>4. i - 1 \in Nat /\ m <= i - 1 /\ i - 1 <= n /\ ~(i <= i - 1) BY <1>1, <2>2, <2>3
  <2>5. Grown(i - 1) BY <2>2, <2>4
  <2>6. i \in 1 .. n /\ i - 1 \in 0 .. n /\ m \in 0 .. n BY <1>1, <2>2, <2>4
  <2> DEFINE u == b[i - 1]
             line == c.lines[i]
             w == b[i]
             first == b[m]
  <2>7. u \in Seq(S) /\ line \in S /\ w = More(u, line) BY <1>2, <1>3, <1>4, <2>6
  <2>8. Len(first) \in Nat /\ Len(first) <= Len(u) /\ \A j \in 1 .. Len(first) : u[j] = first[j]
    BY <1>2, <2>5, <2>6
  <2> HIDE DEF u, line, w, first
  <2>9. Len(w) \in Nat /\ Len(u) \in Nat /\ Len(u) <= Len(w) /\ \A j \in 1 .. Len(u) : w[j] = u[j]
    BY ONLY <1>5, <2>7
  <2>10. Len(first) <= Len(w) /\ \A j \in 1 .. Len(first) : w[j] = first[j]
    <3>1. \A j \in 1 .. Len(first) : j \in 1 .. Len(u) BY <2>8, <2>9
    <3>2. \A j \in 1 .. Len(first) : w[j] = first[j] BY <2>8, <2>9, <3>1
    <3>3. Len(first) <= Len(w) BY <2>8, <2>9
    <3>4. QED BY <3>2, <3>3
  <2>11. Grown(i) BY <2>10 DEF w, first
  <2>12. QED BY <2>2, <2>11
<1>7. k \in 0 .. n /\ m \in 0 .. n BY <1>1
<1>8. QED BY <1>2, <1>6, <1>7 DEF b, S

-----------------------------------------------------------------------------
(***************************************************************************)
(* The lines shipped of a connection.                                      *)
(***************************************************************************)
\* The first j of them are done, the others wait to be shipped.
LinesAre(c, g, at, kept, rest, out) ==
  \E j \in 0 .. Len(c.lines) : \E k \in j .. Len(c.lines) :
    /\ rest = SubSeq(c.lines, j + 1, k) /\ out = Wanted(c)[j]
    /\ at # "lines" => j = k
    /\ Kept(c, g, kept, k)

\* A connection that was accepted has no reader yet.
LinesInv ==
  /\ \A f \in {ySt, yChunks, yShipped} : f = [c \in Conns |-> f[c]]
  /\ yAcceptor = "start" => yReader[yAccepted] = "no"
  /\ \A c \in Conns \ yLossy : LinesAre(yConf, yGot[c], yReader[c], ySt[c], yChunks[c], yShipped[c])

\* It implies the order.
LEMMA OrderByInv == ASSUME Y!IsConf(yConf), LinesInv PROVE Y!LinesInOrder
<1> DEFINE L == Len(yConf.lines)
           all == Wanted(yConf)[L]
<1>1. L \in Nat /\ yConf.lines \in Seq(Seq(Nat)) BY ConfIs
<1>2. Y!Complete = all BY StreamIs
<1> SUFFICES ASSUME NEW c \in Conns \ yLossy PROVE Y!IsPrefix(yShipped[c], all)
  BY <1>2 DEF Y!LinesInOrder
<1>3. PICK j \in 0 .. L : yShipped[c] = Wanted(yConf)[j] BY DEF LinesInv, LinesAre
<1> DEFINE u == Wanted(yConf)[j]
<1>4. L \in j .. L BY <1>1
<1>5. u \in Seq(Seq(Nat)) /\ all \in Seq(Seq(Nat)) /\ Len(u) <= Len(all) /\ \A i \in 1 .. Len(u) : all[i] = u[i]
  BY <1>1, <1>4, WantedGrows
<1> HIDE DEF u, all
<1>6. Y!IsPrefix(u, all)
  <2> DEFINE n == Len(u)
             v == SubSeq(u, 1, n)
             w == SubSeq(all, 1, n)
  <2>1. n \in Nat /\ Len(all) \in Nat BY <1>5, LenProperties
  <2>2. /\ \A i \in 1 .. n : u[i] \in Seq(Nat) /\ all[i] \in Seq(Nat)
    <3>1. \A i \in 1 .. n : i \in 1 .. Len(all) BY <1>5, <2>1
    <3>2. QED BY <1>5, <3>1, ElementOfSeq
  <2> HIDE DEF n
  <2>3. /\ v \in Seq(Seq(Nat)) /\ w \in Seq(Seq(Nat)) /\ Len(v) = n /\ Len(w) = n
        /\ \A i \in 1 .. n : v[i] = u[i] /\ w[i] = all[i]
    <3>1. 1 \in Int /\ n \in Int BY <2>1
    <3>2. /\ v \in Seq(Seq(Nat)) /\ Len(v) = (IF 1 <= n THEN n - 1 + 1 ELSE 0) /\ \A i \in 1 .. n - 1 + 1 : v[i] = u[1 + i - 1]
      BY <2>2, <3>1, SubSeqProperties
    <3>3. /\ w \in Seq(Seq(Nat)) /\ Len(w) = (IF 1 <= n THEN n - 1 + 1 ELSE 0) /\ \A i \in 1 .. n - 1 + 1 : w[i] = all[1 + i - 1]
      BY <2>2, <3>1, SubSeqProperties
    <3> HIDE DEF v, w
    <3>4. n - 1 + 1 = n /\ (~(1 <= n) => n = 0) /\ \A i \in 1 .. n : 1 + i - 1 = i BY <2>1
    <3>5. QED BY <3>2, <3>3, <3>4
  <2>4. v = w
    <3> HIDE DEF v, w
    <3>1. \A i \in 1 .. Len(v) : v[i] = w[i] BY <1>5, <2>3 DEF n
    <3>2. QED BY <2>3, <3>1, SeqEqual
  <2>5. QED BY <1>5, <2>4 DEF Y!IsPrefix, n
<1>7. QED BY <1>3, <1>6 DEF u

\* The first state.
LEMMA LinesInit == Y!Init => LinesInv
<1> SUFFICES ASSUME Y!Init PROVE LinesInv OBVIOUS
<1>1. yConf \in SyslogConfs /\ Y!IsConf(yConf) BY SyslogAssumption DEF Y!Init
<1> DEFINE c == yConf
           L == Len(c.lines)
<1>2. L \in Nat /\ c.lines \in Seq(Seq(Nat)) BY <1>1, ConfIs
<1>3. /\ ySt = [d \in Conns |-> <<>>] /\ yChunks = [d \in Conns |-> <<>>] /\ yShipped = [d \in Conns |-> <<>>]
      /\ yGot = [d \in Conns |-> 0] /\ yAcceptor # "start"
  BY DEF Y!Init
<1> HIDE DEF c
<1>4. SubSeq(c.lines, 0 + 1, 0) = <<>> /\ SubSeq(Y!StreamOf(c), 0 + 1, 0) = <<>>
  <2>1. 0 < 0 + 1 /\ 0 \in Int /\ 0 + 1 \in Int OBVIOUS
  <2>2. QED BY <2>1, SubSeqEmpty
<1>5. Wanted(c)[0] = <<>> BY <1>2, WantedIs
<1>6. Kept(c, 0, <<>>, 0)
  <2>1. CASE c.kind = "udp" BY <2>1 DEF Kept
  <2>2. CASE c.kind # "udp"
    <3>1. EndAt(c, 0) = 0 BY <1>1, <2>2, LinesPlaced DEF c
    <3>2. QED BY <1>4, <2>2, <3>1 DEF Kept
  <2>3. QED BY <2>1, <2>2
<1>7. \A at : LinesAre(c, 0, at, <<>>, <<>>, <<>>)
  <2>1. 0 \in 0 .. L BY <1>2
  <2>2. QED BY <1>4, <1>5, <1>6, <2>1 DEF LinesAre
<1>8. QED BY <1>3, <1>7 DEF LinesInv, c

\* Outside its loop a reader has no lines to ship, so that it may go anywhere.
LEMMA Leaves ==
  ASSUME NEW c, NEW g, NEW at, NEW kept, NEW rest, NEW out, LinesAre(c, g, at, kept, rest, out), at # "lines"
  PROVE  \A x : LinesAre(c, g, x, kept, rest, out)
BY DEF LinesAre

\* A step of main's goroutines, of a sender or of Close.
LEMMA LinesOthers ==
  ASSUME LinesInv, Y!TypeOK, LastReadInv,
         Y!Acceptor \/ Y!Closer \/ Y!CloseFlag \/ UNCHANGED Y!vars \/ \E c \in Conns : Y!Dial(c) \/ Y!Send(c) \/ Y!Shut(c)
  PROVE  LinesInv'
<1> USE DEF Y!Acceptor, Y!Closer, Y!CloseFlag, Y!vars, Y!Dial, Y!Send, Y!Shut, Y!CheckRunning, Y!Accept, Y!AcceptFails,
            Y!StartReader, Y!CloseAccepted, Y!CloseListener, Y!CloseClient, Y!readVars, Y!netVars, Y!CloseUnchanged
<1>1. UNCHANGED <<yConf, yGot, ySt, yChunks, yShipped, yLossy>> OBVIOUS
<1>2. \/ yReader' = yReader
      \/ /\ yAcceptor = "start" /\ yAcceptor' # "start"
         /\ yReader' = [yReader EXCEPT ![yAccepted] = "check"] \/ yReader' = [yReader EXCEPT ![yAccepted] = "done"]
  OBVIOUS
<1>3. yAcceptor' = "start" => yReader'[yAccepted'] = "no"
  BY DEF LinesInv
<1> USE DEF LinesInv
<1>4. ASSUME NEW d \in Conns \ yLossy
      PROVE  LinesAre(yConf, yGot[d], yReader'[d], ySt[d], yChunks[d], yShipped[d])
  <2>1. LinesAre(yConf, yGot[d], yReader[d], ySt[d], yChunks[d], yShipped[d]) OBVIOUS
  <2>2. yReader'[d] = yReader[d] \/ yReader[d] = "no"
    <3>1. yReader \in [Conns -> {"no", "check", "read", "lines", "done"}] BY DEF Y!TypeOK
    <3>2. QED BY <1>2, <3>1
  <2>3. CASE yReader'[d] = yReader[d] BY <2>1, <2>3
  <2>4. CASE yReader[d] = "no"
    <3>1. "no" # "lines" OBVIOUS
    <3>2. QED BY <2>1, <2>4, <3>1, Leaves
  <2>5. QED BY <2>2, <2>3, <2>4
<1>5. QED BY <1>1, <1>3, <1>4

\* What a step of the reader of c has to keep.
LEMMA LinesOfOne ==
  ASSUME LinesInv, Y!TypeOK, LastReadInv, NEW c \in Conns, yReader[c] # "no",
         UNCHANGED <<yConf, yAcceptor, yAccepted>>, yLossy \subseteq yLossy',
         NEW got, NEW at, NEW kept, NEW rest, NEW out,
         yGot' = [yGot EXCEPT ![c] = got], yReader' = [yReader EXCEPT ![c] = at], ySt' = [ySt EXCEPT ![c] = kept],
         yChunks' = [yChunks EXCEPT ![c] = rest], yShipped' = [yShipped EXCEPT ![c] = out],
         c \notin yLossy' => LinesAre(yConf, got, at, kept, rest, out)
  PROVE  LinesInv'
<1>1. /\ yReader \in [Conns -> {"no", "check", "read", "lines", "done"}] /\ yGot \in [Conns -> Nat]
      /\ \A f \in {ySt, yChunks, yShipped} : f = [d \in Conns |-> f[d]]
  BY DEF Y!TypeOK, LinesInv
<1>2. \A d \in Conns \ {c} : /\ yGot'[d] = yGot[d] /\ yReader'[d] = yReader[d] /\ ySt'[d] = ySt[d]
                             /\ yChunks'[d] = yChunks[d] /\ yShipped'[d] = yShipped[d]
  BY <1>1
<1>3. yGot'[c] = got /\ yReader'[c] = at /\ ySt'[c] = kept /\ yChunks'[c] = rest /\ yShipped'[c] = out BY <1>1
<1>4. yAcceptor' = "start" => yReader'[yAccepted'] = "no"
  BY <1>1, <1>2 DEF LinesInv, LastReadInv
<1>5. ASSUME NEW d \in Conns \ yLossy'
      PROVE  LinesAre(yConf, yGot'[d], yReader'[d], ySt'[d], yChunks'[d], yShipped'[d])
  <2>1. CASE d = c BY <1>3, <2>1
  <2>2. CASE d # c
    <3>1. d \in Conns \ yLossy BY <1>5
    <3>2. LinesAre(yConf, yGot[d], yReader[d], ySt[d], yChunks[d], yShipped[d]) BY <3>1 DEF LinesInv
    <3>3. QED BY <1>2, <2>2, <3>2
  <2>3. QED BY <2>1, <2>2
<1>6. \A f \in {ySt', yChunks', yShipped'} : f = [d \in Conns |-> f[d]] BY <1>1
<1>7. QED BY <1>4, <1>5, <1>6 DEF LinesInv

\* A read, of a datagram or of a part of a stream.
LEMMA LinesRead ==
  ASSUME LinesInv, Y!TypeOK, LastReadInv, NEW c \in Conns, NEW n \in 1 .. (ySent[c] - yGot[c]), Y!Read(c, n)
  PROVE  LinesInv'
<1> DEFINE cf == yConf
           g == yGot[c]
           L == Len(cf.lines)
           data == Data(cf, g, n)
           scan == Y!Tokenizer(ySt[c])!Scan(data)
<1>1. /\ Y!IsConf(cf) /\ g \in Nat /\ n \in Nat \ {0} /\ g + n <= Len(Y!StreamOf(cf)) /\ L \in Nat
  <2>1. Y!IsConf(cf) /\ ySent[c] \in 0 .. Len(Y!Stream) /\ g \in Nat BY DEF Y!TypeOK
  <2>2. L \in Nat BY <2>1, ConfIs
  <2> DEFINE size == Len(Y!Stream)
  <2>3. ySent[c] \in 0 .. size BY <2>1
  <2>4. size \in Int BY <2>1
  <2> HIDE DEF size
  <2>5. n \in Nat \ {0} /\ g + n <= size BY <2>1, <2>3, <2>4
  <2>6. QED BY <2>1, <2>2, <2>5 DEF size, Y!Stream
<1>2. /\ yReader[c] = "read"
      /\ cf.kind = "udp" => n = 1 /\ yChunks' = [yChunks EXCEPT ![c] = data] /\ ySt' = ySt /\ yLossy' = yLossy
      /\ cf.kind # "udp" =>
           /\ yChunks' = [yChunks EXCEPT ![c] = scan.report] /\ ySt' = [ySt EXCEPT ![c] = scan.cur]
           /\ yLossy' = IF Y!Tokenizer(ySt[c])!HasShortSegment(data) THEN yLossy \union {c} ELSE yLossy
      /\ yGot' = [yGot EXCEPT ![c] = g + n] /\ yReader' = [yReader EXCEPT ![c] = "lines"]
      /\ UNCHANGED <<yConf, yAcceptor, yAccepted, yShipped>>
  BY DEF Y!Read, Data, Y!Stream, Y!ReadUnchanged
<1>3. \A f \in {ySt, yChunks, yShipped} : f = [d \in Conns |-> f[d]] BY DEF LinesInv
<1>4. yShipped' = [yShipped EXCEPT ![c] = yShipped[c]] BY <1>2, <1>3
<1>5. yLossy \subseteq yLossy' BY <1>2
<1> DEFINE kept == IF cf.kind = "udp" THEN ySt[c] ELSE scan.cur
           rest == IF cf.kind = "udp" THEN data ELSE scan.report
<1>6. ySt' = [ySt EXCEPT ![c] = kept] /\ yChunks' = [yChunks EXCEPT ![c] = rest] BY <1>2, <1>3
<1>7. ASSUME c \notin yLossy' PROVE LinesAre(cf, g + n, "lines", kept, rest, yShipped[c])
  <2>1. LinesAre(cf, g, "read", ySt[c], yChunks[c], yShipped[c]) BY <1>2, <1>5, <1>7 DEF LinesInv
  <2>2. PICK k \in 0 .. L : yShipped[c] = Wanted(cf)[k] /\ Kept(cf, g, ySt[c], k)
    BY <2>1 DEF LinesAre
  <2>3. \E m \in k .. L : rest = SubSeq(cf.lines, k + 1, m) /\ Kept(cf, g + n, kept, m)
    <3>1. CASE cf.kind = "udp"
      <4>1. n = 1 /\ k = g /\ Y!StreamOf(cf) = cf.lines BY <1>2, <2>2, <3>1, StreamIs DEF Kept
      <4>2. k + 1 \in k .. L BY <1>1, <4>1
      <4>3. rest = SubSeq(cf.lines, k + 1, k + 1) BY <3>1, <4>1 DEF Data
      <4>4. Kept(cf, g + n, kept, k + 1) BY <3>1, <4>1 DEF Kept
      <4>5. QED BY <4>2, <4>3, <4>4
    <3>2. CASE cf.kind # "udp"
      <4>1. ~Y!Tokenizer(ySt[c])!HasShortSegment(data) BY <1>2, <1>7, <3>2
      <4> DEFINE st == ySt[c]
      <4>2. Kept(cf, g, st, k) BY <2>2
      <4>3. ~Y!Tokenizer(st)!HasShortSegment(Data(cf, g, n)) BY <4>1
      <4> HIDE DEF st, cf, g
      <4>4. \E m \in k .. Len(cf.lines) :
              /\ Y!Tokenizer(st)!Scan(Data(cf, g, n)).report = SubSeq(cf.lines, k + 1, m)
              /\ Kept(cf, g + n, Y!Tokenizer(st)!Scan(Data(cf, g, n)).cur, m)
        BY <1>1, <3>2, <4>2, <4>3, LinesOfRead
      <4>5. PICK m \in k .. L : scan.report = SubSeq(cf.lines, k + 1, m) /\ Kept(cf, g + n, scan.cur, m)
        BY <4>4 DEF st
      <4> HIDE DEF scan
      <4>6. rest = SubSeq(cf.lines, k + 1, m) BY <3>2, <4>5
      <4>7. Kept(cf, g + n, kept, m) BY <3>2, <4>5
      <4>8. QED BY <4>6, <4>7
    <3>3. QED BY <3>1, <3>2
  <2>4. QED BY <2>2, <2>3 DEF LinesAre
<1> HIDE DEF kept, rest, cf
<1>8. yReader[c] # "no" /\ UNCHANGED <<yConf, yAcceptor, yAccepted>> BY <1>2
<1>9. QED BY <1>2, <1>4, <1>5, <1>6, <1>7, <1>8, LinesOfOne DEF cf

\* The first of the lines that wait.
LEMMA LinesNext ==
  ASSUME NEW c, Y!IsConf(c), NEW g, NEW kept, NEW rest, NEW out, LinesAre(c, g, "lines", kept, rest, out)
  PROVE  /\ rest = <<>> => \A x : LinesAre(c, g, x, kept, rest, out)
         /\ rest # <<>> => /\ Head(rest) = <<>> => LinesAre(c, g, "lines", kept, Tail(rest), out)
                           /\ Head(rest) # <<>> => LinesAre(c, g, "lines", kept, Tail(rest), Append(out, Head(rest)))
<1> DEFINE L == Len(c.lines)
<1>1. L \in Nat /\ c.lines \in Seq(Seq(Nat)) BY ConfIs
<1>2. PICK j \in 0 .. L : \E k \in j .. L :
        rest = SubSeq(c.lines, j + 1, k) /\ out = Wanted(c)[j] /\ Kept(c, g, kept, k)
  BY DEF LinesAre
<1>a. PICK k \in j .. L : rest = SubSeq(c.lines, j + 1, k) /\ out = Wanted(c)[j] /\ Kept(c, g, kept, k) BY <1>2
<1>3. CASE j = k
  <2>1. rest = <<>>
    <3>1. k < j + 1 /\ k \in Int /\ j + 1 \in Int BY <1>1, <1>3
    <3>2. QED BY <1>a, <3>1, SubSeqEmpty
  <2>2. \A x : LinesAre(c, g, x, kept, rest, out) BY <1>1, <1>a, <1>3 DEF LinesAre
  <2>3. QED BY <2>1, <2>2
<1>4. CASE j # k
  <2> DEFINE next == j + 1
             line == c.lines[next]
             tail == SubSeq(c.lines, next + 1, k)
  <2>1. next \in 1 .. L /\ k \in next .. L /\ next \in 0 .. L /\ next - 1 = j BY <1>1, <1>4
  <2>2. Head(rest) = line /\ Tail(rest) = tail BY <1>1, <1>a, <2>1, HeadTailOfSubSeq
  <2>3. rest # <<>>
    <3>1. \A i \in next .. k : i \in 1 .. L BY <2>1
    <3>2. \A i \in next .. k : c.lines[i] \in Seq(Nat) BY <1>1, <3>1, ElementOfSeq
    <3>3. next \in Int /\ k \in Int BY <2>1
    <3> HIDE DEF next
    <3>4. Len(SubSeq(c.lines, next, k)) = IF next <= k THEN k - next + 1 ELSE 0 BY <3>2, <3>3, SubSeqProperties
    <3>5. Len(rest) > 0 BY <1>a, <2>1, <3>3, <3>4 DEF next
    <3>6. QED BY <3>5
  <2>4. Wanted(c)[next] = More(out, line)
    <3> HIDE DEF next
    <3>1. Wanted(c)[next] = More(Wanted(c)[next - 1], c.lines[next]) BY <1>1, <2>1, WantedIs
    <3>2. QED BY <1>a, <2>1, <3>1
  <2> HIDE DEF next, line, tail
  <2>5. LinesAre(c, g, "lines", kept, tail, More(out, line)) BY <1>a, <2>1, <2>4 DEF LinesAre, tail
  <2>6. QED BY <2>2, <2>3, <2>5 DEF More
<1>5. QED BY <1>3, <1>4

\* A step of a reader.
LEMMA LinesReader ==
  ASSUME LinesInv, Y!TypeOK, LastReadInv, NEW c \in Conns, Y!Reader(c)
  PROVE  LinesInv'
<1> DEFINE g == yGot[c]
           at == yReader[c]
           kept == ySt[c]
           rest == yChunks[c]
           out == yShipped[c]
<1>1. Y!IsConf(yConf) /\ (c \notin yLossy => LinesAre(yConf, g, at, kept, rest, out)) BY DEF Y!TypeOK, LinesInv
<1>2. /\ ySt = [d \in Conns |-> ySt[d]] /\ yChunks = [d \in Conns |-> yChunks[d]]
      /\ yShipped = [d \in Conns |-> yShipped[d]] /\ yGot \in [Conns -> Nat]
      /\ yReader \in [Conns -> {"no", "check", "read", "lines", "done"}]
  BY DEF LinesInv, Y!TypeOK
<1>3. CASE \E n \in 1 .. (ySent[c] - g) : Y!Read(c, n) BY <1>3, LinesRead
<1>4. ASSUME at # "no", UNCHANGED <<yConf, yAcceptor, yAccepted, yGot, ySt>>, yLossy \subseteq yLossy',
             NEW r, NEW a, NEW o, yReader' = [yReader EXCEPT ![c] = r], yChunks' = [yChunks EXCEPT ![c] = a],
             yShipped' = [yShipped EXCEPT ![c] = o], c \notin yLossy' => LinesAre(yConf, g, r, kept, a, o)
      PROVE  LinesInv'
  <2>1. yGot' = [yGot EXCEPT ![c] = g] /\ ySt' = [ySt EXCEPT ![c] = kept] BY <1>2, <1>4
  <2> HIDE DEF g, kept
  <2>2. yReader[c] # "no" BY <1>4
  <2>3. QED BY <1>4, <2>1, <2>2, LinesOfOne
<1>5. CASE Y!CheckReader(c) \/ Y!ReadFails(c)
  <2>1. /\ at # "no" /\ at # "lines" /\ UNCHANGED <<yConf, yAcceptor, yAccepted, yGot, ySt, yChunks, yShipped, yLossy>>
    BY <1>5 DEF Y!CheckReader, Y!ReadFails, Y!ReadUnchanged
  <2>2. PICK r : yReader' = [yReader EXCEPT ![c] = r]
    BY <1>5 DEF Y!CheckReader, Y!ReadFails, Y!Ends
  <2>3. yChunks' = [yChunks EXCEPT ![c] = rest] /\ yShipped' = [yShipped EXCEPT ![c] = out] BY <1>2, <2>1
  <2>4. c \notin yLossy' => LinesAre(yConf, g, r, kept, rest, out) BY <1>1, <2>1, Leaves
  <2> HIDE DEF g, at, kept, rest, out
  <2>5. QED BY <1>4, <2>1, <2>2, <2>3, <2>4
<1>6. CASE Y!NoMoreLines(c)
  <2>1. /\ at = "lines" /\ rest = <<>> /\ yReader' = [yReader EXCEPT ![c] = "check"]
        /\ UNCHANGED <<yConf, yAcceptor, yAccepted, yGot, ySt, yChunks, yShipped, yLossy>>
    BY <1>6 DEF Y!NoMoreLines, Y!LineUnchanged, Y!ReadUnchanged
  <2>2. yChunks' = [yChunks EXCEPT ![c] = rest] /\ yShipped' = [yShipped EXCEPT ![c] = out] BY <1>2, <2>1
  <2> HIDE DEF g, at, kept, rest, out
  <2>3. c \notin yLossy' => LinesAre(yConf, g, "check", kept, rest, out) BY <1>1, <2>1, LinesNext
  <2>4. QED BY <1>4, <2>1, <2>2, <2>3
<1>7. CASE Y!BufferFull(c)
  <2>1. /\ at = "lines" /\ UNCHANGED <<yConf, yAcceptor, yAccepted, yReader, yGot, ySt, yChunks, yShipped, yLossy>>
    BY <1>7 DEF Y!BufferFull, Y!IsLine, Y!LineUnchanged, Y!ReadUnchanged
  <2>2. /\ yChunks' = [yChunks EXCEPT ![c] = rest] /\ yShipped' = [yShipped EXCEPT ![c] = out]
        /\ yReader' = [yReader EXCEPT ![c] = at]
    BY <1>2, <2>1
  <2> HIDE DEF g, at, kept, rest, out
  <2>3. QED BY <1>1, <1>4, <2>1, <2>2
<1>8. CASE Y!EmptyLine(c) \/ Y!Ship(c) \/ Y!ShipFails(c)
  <2>1. /\ at = "lines" /\ rest # <<>> /\ UNCHANGED <<yConf, yAcceptor, yAccepted, yReader, yGot, ySt>>
        /\ yLossy' \in {yLossy, yLossy \union {c}} /\ yChunks' = [yChunks EXCEPT ![c] = Tail(rest)]
    BY <1>8 DEF Y!EmptyLine, Y!Ship, Y!ShipFails, Y!IsLine, Y!NextLine, Y!LineUnchanged, Y!ReadUnchanged
  <2>2. yReader' = [yReader EXCEPT ![c] = at] BY <1>2, <2>1
  <2>3. CASE Y!EmptyLine(c)
    <3>1. Head(rest) = <<>> /\ UNCHANGED <<yShipped, yLossy>> BY <2>3 DEF Y!EmptyLine
    <3>2. yShipped' = [yShipped EXCEPT ![c] = out] BY <1>2, <3>1
    <3> HIDE DEF g, at, kept, rest, out
    <3>3. c \notin yLossy' => LinesAre(yConf, g, at, kept, Tail(rest), out) BY <1>1, <2>1, <3>1, LinesNext
    <3>4. QED BY <1>4, <2>1, <2>2, <3>1, <3>2, <3>3
  <2>4. CASE Y!Ship(c)
    <3>1. Head(rest) # <<>> /\ yShipped' = [yShipped EXCEPT ![c] = Append(out, Head(rest))] /\ UNCHANGED yLossy
      BY <2>4 DEF Y!Ship, Y!IsLine
    <3> HIDE DEF g, at, kept, rest, out
    <3>2. c \notin yLossy' => LinesAre(yConf, g, at, kept, Tail(rest), Append(out, Head(rest)))
      BY <1>1, <2>1, <3>1, LinesNext
    <3>3. QED BY <1>4, <2>1, <2>2, <3>1, <3>2
  <2>5. CASE Y!ShipFails(c)
    <3>1. c \in yLossy' /\ UNCHANGED yShipped BY <2>5 DEF Y!ShipFails
    <3>2. yShipped' = [yShipped EXCEPT ![c] = out] BY <1>2, <3>1
    <3> HIDE DEF g, at, kept, rest, out
    <3>3. QED BY <1>4, <2>1, <2>2, <3>1, <3>2
  <2>6. QED BY <1>8, <2>3, <2>4, <2>5
<1>9. QED BY <1>3, <1>5, <1>6, <1>7, <1>8 DEF Y!Reader

\* Every step keeps the lines in order.
LEMMA LinesStep == SyslogInv /\ LinesInv /\ [Y!Next]_Y!vars => LinesInv'
BY LinesOthers, LinesReader DEF Y!Next, Y!Waiting, SyslogInv

-----------------------------------------------------------------------------
(***************************************************************************)
(* sentinelone.                                                            *)
(***************************************************************************)
Published(e) == oCreated[e] # O!None

\* Events are published in their order, and not ahead of the clock.
PublishedInOrder ==
  \A e \in O!Events : Published(e) =>
    /\ oCreated[e] \in 1 .. oNow
    /\ \A f \in O!Events : f < e => Published(f) /\ oCreated[f] <= oCreated[e] /\ (~oConf.Ties => oCreated[f] < oCreated[e])

\* The time kept does not go back behind an event.
Tame == oConf.Zone >= 0 \/ oConf.Missing = {}

Asking(p) == oPc[p] \in {"pages", "try", "backoff"}

\* Nothing happens before the first window; a back-off leaves an attempt.
LoopInv(p) ==
  /\ oIsFirstRun[p] => /\ oPc[p] \in {"head", "ended"} /\ oAsked[p] = O!None /\ oLastCreatedAt[p] = 0
                      /\ \A e \in O!Events : oShipped[p][e] = 0
  /\ oPc[p] = "backoff" => oAttempt[p] + 1 < MaxRetryAttempts

\* What was shipped is behind the time kept, behind the page that is asked for and before
\* the rest of the page that is being shipped.
BehindInv(p) ==
  \A e \in O!Events : oShipped[p][e] > 0 =>
    /\ oShipped[p][e] = 1 /\ Published(e) /\ oCreated[e] <= oLastCreatedAt[p]
    /\ Asking(p) => oCreated[e] < oStart[p] \/ e <= oNextPage[p]
    /\ oPc[p] = "ship" => (\A f \in oItems[p] : e < f) /\ (oNextPage[p] > 0 => oCreated[e] < oStart[p] \/ e <= oNextPage[p])

\* The page that is being shipped has published events of the window, none beyond its last.
PageInv(p) ==
  /\ oNextPage[p] > 0 => Published(oNextPage[p])
  /\ oPc[p] = "ship" => \A f \in oItems[p] : Published(f) /\ oCreated[f] >= oStart[p] /\ (oNextPage[p] > 0 => f <= oNextPage[p])

\* Times do not tie, every event has one, and doStop is not set.
Regular == ~oConf.Ties /\ oConf.Missing = {} /\ ~oIsStop

Due(p, e) == Published(e) /\ oBegun[p] < oCreated[e]
Taken(p, e) == oShipped[p][e] = 1 \/ (oPc[p] = "ship" /\ e \in oItems[p])

\* The time kept is the one of an event, or not after the start of the first window, and
\* the window does not start beyond it.
KeptInv(p) ==
  /\ oLastCreatedAt[p] <= 0 \/ oLastCreatedAt[p] <= oBegun[p] \/ \E e \in O!Events : Published(e) /\ oCreated[e] = oLastCreatedAt[p]
  /\ Asking(p) \/ oPc[p] = "ship" => oStart[p] <= oLastCreatedAt[p] + 1

\* Nothing is left behind: up to the time kept, to the page that is asked for, to the rest
\* of the page that is being shipped, and to the end of the last window.
CompleteInv(p) ==
  \A e \in O!Events : Due(p, e) =>
    /\ oCreated[e] <= oLastCreatedAt[p] => oShipped[p][e] = 1
    /\ Asking(p) /\ (oCreated[e] < oStart[p] \/ e <= oNextPage[p]) => oShipped[p][e] = 1
    /\ oPc[p] = "ship" =>
         /\ \A f \in oItems[p] : e < f => Taken(p, e)
         /\ oNextPage[p] > 0 /\ (oCreated[e] < oStart[p] \/ e <= oNextPage[p]) => Taken(p, e)
    /\ oCreated[e] < oAsked[p] => Taken(p, e)

EndpointInv(p) ==
  /\ LoopInv(p) /\ PageInv(p)
  /\ Tame => BehindInv(p)
  /\ Regular => KeptInv(p) /\ CompleteInv(p)

S1Inv == O!TypeOK /\ PublishedInOrder /\ \A p \in Endpoints : EndpointInv(p)

-----------------------------------------------------------------------------
\* The types of the constants, and what a situation may say.
LEMMA S1Constants ==
  /\ N \in Nat /\ MaxTime \in Nat \ {0} /\ MaxRetryAttempts \in Nat \ {0} /\ Back \in Nat \ {0}
  /\ \A e \in O!Events : e \in Nat /\ e > 0
  /\ \A c \in S1Confs : O!IsConf(c)
BY S1Assumption DEF O!Events

\* The times of lastCreatedAt and of the windows.
LEMMA S1Times ==
  ASSUME oConf \in S1Confs
  PROVE /\ 1 - Back .. MaxTime \subseteq O!Times /\ O!Times \subseteq Int /\ O!Times \subseteq O!Starts /\ O!Starts \subseteq Int
        /\ \A t \in 1 .. MaxTime : t + oConf.Zone \in O!Times
        /\ \A t \in O!Times : t + 1 \in O!Starts
        /\ oConf.Zone \in Int
<1> USE S1Constants
<1>1. oConf.Zone \in Int BY DEF O!IsConf
<1>2. O!Times \subseteq Int BY <1>1 DEF O!Times
<1>3. \A t \in 1 .. MaxTime : t + oConf.Zone \in O!Times BY DEF O!Times
<1>4. 1 - Back .. MaxTime \subseteq O!Times BY DEF O!Times
<1>5. O!Times \subseteq O!Starts /\ \A t \in O!Times : t + 1 \in O!Starts BY DEF O!Starts
<1>6. ASSUME NEW s \in O!Starts PROVE s \in Int
  <2>1. s \in O!Times \/ \E t \in O!Times : s = t + 1 BY <1>6, Zenon DEF O!Starts
  <2>2. CASE s \in O!Times BY <2>2, <1>2
  <2>3. CASE \E t \in O!Times : s = t + 1
    <3>1. PICK t \in O!Times : s = t + 1 BY <2>3
    <3>2. QED BY <3>1, <1>2
  <2>4. QED BY <2>1, <2>2, <2>3
<1>7. QED BY <1>1, <1>2, <1>3, <1>4, <1>5, <1>6

\* They, and what is assumed of the situation, stay.
LEMMA S1Stays ==
  ASSUME oConf' = oConf
  PROVE O!Times' = O!Times /\ O!Starts' = O!Starts /\ (Tame' <=> Tame)
BY DEF O!Times, O!Starts, Tame

\* The types that the proofs of the steps need most.
LEMMA S1Types ==
  ASSUME O!TypeOK
  PROVE /\ oNow \in Nat /\ oConf.Ties \in BOOLEAN /\ oIsStop \in BOOLEAN
        /\ oConf.PageSize \in Nat \ {0} /\ oConf.cycles \in Nat
        /\ \A e \in O!Events : oCreated[e] \in Int
        /\ \A p \in Endpoints :
             /\ oLastCreatedAt[p] \in Int /\ oStart[p] \in Int /\ oUntil[p] \in Int /\ oUntil[p] <= oNow
             /\ oNextPage[p] \in 0 .. N /\ (oNextPage[p] > 0 => oNextPage[p] \in O!Events)
             /\ oItems[p] \subseteq O!Events /\ oBegun[p] \in Int /\ oAsked[p] \in Int /\ oAsked[p] <= oNow
             /\ \A e \in O!Events : oShipped[p][e] \in 0 .. 2
<1> USE S1Constants
<1>1. O!IsConf(oConf) BY DEF O!TypeOK
<1>2. oConf.Ties \in BOOLEAN /\ oConf.PageSize \in Nat \ {0} /\ oConf.cycles \in Nat BY <1>1 DEF O!IsConf
<1>3. oNow \in Nat /\ oIsStop \in BOOLEAN BY DEF O!TypeOK
<1>4. \A e \in O!Events : oCreated[e] \in Int BY DEF O!TypeOK, O!None
<1>5. ASSUME NEW p \in Endpoints
      PROVE /\ oLastCreatedAt[p] \in Int /\ oStart[p] \in Int /\ oUntil[p] \in Int /\ oUntil[p] <= oNow
            /\ oNextPage[p] \in 0 .. N /\ (oNextPage[p] > 0 => oNextPage[p] \in O!Events)
            /\ oItems[p] \subseteq O!Events /\ oBegun[p] \in Int /\ oAsked[p] \in Int /\ oAsked[p] <= oNow
            /\ \A e \in O!Events : oShipped[p][e] \in 0 .. 2
  <2>1. oLastCreatedAt[p] \in Int /\ oStart[p] \in Int /\ oUntil[p] \in 0 .. oNow
    <3>1. oConf \in S1Confs BY DEF O!TypeOK
    <3>2. oLastCreatedAt[p] \in O!Times /\ oStart[p] \in O!Starts /\ oUntil[p] \in 0 .. oNow BY DEF O!TypeOK
    <3>3. QED BY <3>1, <3>2, S1Times
  <2>2. oNextPage[p] \in 0 .. N /\ oItems[p] \subseteq O!Events /\ oBegun[p] \in Int /\ oAsked[p] \in O!None .. oNow BY DEF O!TypeOK
  <2>3. oShipped[p] \in [O!Events -> 0 .. 2] BY DEF O!TypeOK
  <2>4. QED BY <2>1, <2>2, <2>3, <1>3 DEF O!None, O!Events
<1>6. QED BY <1>2, <1>3, <1>4, <1>5

\* The first state.
LEMMA S1Init == O!Init => S1Inv
<1> SUFFICES ASSUME O!Init PROVE S1Inv OBVIOUS
<1> USE S1Constants
<1>1. O!TypeOK
  <2>1. oConf \in S1Confs /\ O!IsConf(oConf) /\ oNow \in 1 .. MaxTime BY DEF O!Init
  <2>2. oCreated \in [O!Events -> O!None .. MaxTime]
    <3>1. O!None \in O!None .. MaxTime BY DEF O!None
    <3>2. QED BY <3>1, Zenon DEF O!Init
  <2>0. oIsStop \in BOOLEAN /\ oCloser = "no" BY Zenon DEF O!Init
  <2>3. oPc \in [Endpoints -> {"head", "wait", "pages", "try", "backoff", "ship", "ended"}] BY DEF O!Init
  <2>4. oIsFirstRun \in [Endpoints -> BOOLEAN] /\ oIsDataFound \in [Endpoints -> BOOLEAN] BY DEF O!Init
  <2>5. oConf.cycles \in Nat BY <2>1 DEF O!IsConf
  <2>6. oCycles \in [Endpoints -> 0 .. oConf.cycles] BY <2>5 DEF O!Init
  <2>7. oLastCreatedAt \in [Endpoints -> O!Times] /\ oStart \in [Endpoints -> O!Starts]
    <3>1. 0 \in 1 - Back .. MaxTime OBVIOUS
    <3>2. 0 \in O!Times /\ 0 \in O!Starts BY <2>1, <3>1, S1Times
    <3>3. QED BY <3>2 DEF O!Init
  <2>8. oUntil \in [Endpoints -> 0 .. oNow] /\ oNextPage \in [Endpoints -> 0 .. N] BY DEF O!Init
  <2>9. oAttempt \in [Endpoints -> 0 .. MaxRetryAttempts - 1] /\ oItems \in [Endpoints -> SUBSET O!Events] BY DEF O!Init
  <2>10. oBegun \in [Endpoints -> Int] /\ oAsked \in [Endpoints -> O!None .. oNow] BY DEF O!Init, O!None
  <2>11. oShipped \in [Endpoints -> [O!Events -> 0 .. 2]] BY DEF O!Init
  <2>12. QED BY <2>0, <2>1, <2>2, <2>3, <2>4, <2>6, <2>7, <2>8, <2>9, <2>10, <2>11 DEF O!TypeOK
<1>2. \A e \in O!Events : ~Published(e) BY DEF O!Init, Published
<1>3. PublishedInOrder BY <1>2 DEF PublishedInOrder
<1>4. ASSUME NEW p \in Endpoints PROVE EndpointInv(p)
  <2>1. /\ oPc[p] \in {"head", "ended"} /\ oAsked[p] = O!None /\ oLastCreatedAt[p] = 0 /\ oNextPage[p] = 0
        /\ \A e \in O!Events : oShipped[p][e] = 0
    BY DEF O!Init
  <2>2. LoopInv(p) BY <2>1 DEF LoopInv
  <2>3. BehindInv(p) /\ PageInv(p) BY <2>1 DEF BehindInv, PageInv
  <2>4. KeptInv(p) /\ CompleteInv(p) BY <2>1, <1>2 DEF KeptInv, CompleteInv, Due, Asking
  <2>5. QED BY <2>2, <2>3, <2>4 DEF EndpointInv
<1>5. QED BY <1>1, <1>3, <1>4 DEF S1Inv

\* A step that neither publishes nor touches the endpoint keeps its invariant.
LEMMA S1Other ==
  ASSUME NEW q \in Endpoints, EndpointInv(q), UNCHANGED <<oConf, oCreated>>, oIsStop => oIsStop',
         oPc'[q] = oPc[q], oIsFirstRun'[q] = oIsFirstRun[q], oLastCreatedAt'[q] = oLastCreatedAt[q], oStart'[q] = oStart[q],
         oNextPage'[q] = oNextPage[q], oAttempt'[q] = oAttempt[q], oItems'[q] = oItems[q], oBegun'[q] = oBegun[q],
         oAsked'[q] = oAsked[q], oShipped'[q] = oShipped[q]
  PROVE EndpointInv(q)'
<1>1. LoopInv(q)' BY DEF EndpointInv, LoopInv
<1>2. Tame' => BehindInv(q)' BY DEF EndpointInv, BehindInv, Asking, Published, Tame
<1>3. PageInv(q)' BY DEF EndpointInv, PageInv, Published
<1>4. Regular' => Regular BY DEF Regular
<1>5. Regular' => KeptInv(q)' BY <1>4 DEF EndpointInv, KeptInv, Published, Asking
<1>6. Regular' => CompleteInv(q)' BY <1>4 DEF EndpointInv, CompleteInv, Due, Taken, Published, Asking
<1>7. QED BY <1>1, <1>2, <1>3, <1>5, <1>6 DEF EndpointInv

\* An endpoint goes on to a place where it neither ships nor has anything left to ship.
LEMMA S1Move ==
  ASSUME S1Inv, NEW p \in Endpoints, NEW x \in {"head", "wait", "pages", "try", "backoff", "ended"},
         UNCHANGED <<oConf, oNow, oCreated, oCycles, oIsFirstRun, oIsDataFound, oLastCreatedAt, oStart, oUntil, oNextPage, oItems, oBegun,
                     oAsked, oShipped>>,
         oPc' = [oPc EXCEPT ![p] = x], oIsStop' \in BOOLEAN, oIsStop => oIsStop', oCloser' \in {"no", "wait", "closed"},
         oAttempt' \in [Endpoints -> 0 .. MaxRetryAttempts - 1], \A q \in Endpoints : q # p => oAttempt'[q] = oAttempt[q],
         x = "backoff" => oAttempt'[p] + 1 < MaxRetryAttempts,
         x \in {"pages", "try", "backoff"} => Asking(p) \/ (oPc[p] = "ship" /\ oNextPage[p] > 0),
         oPc[p] = "ship" => oItems[p] = {},
         oIsFirstRun[p] => x \in {"head", "ended"}
  PROVE S1Inv'
<1> USE S1Constants
<1>t. O!TypeOK /\ EndpointInv(p) BY DEF S1Inv
<1>p. /\ oPc' \in [Endpoints -> {"head", "wait", "pages", "try", "backoff", "ship", "ended"}] /\ oPc'[p] = x
      /\ \A q \in Endpoints : q # p => oPc'[q] = oPc[q]
  BY <1>t DEF O!TypeOK
<1>1. O!TypeOK' BY <1>t, <1>p, S1Stays DEF O!TypeOK
<1>2. PublishedInOrder' BY DEF S1Inv, PublishedInOrder, Published
<1>3. ASSUME NEW q \in Endpoints, q # p PROVE EndpointInv(q)' BY <1>3, <1>p, S1Other DEF S1Inv
<1>4. EndpointInv(p)'
  <2>1. LoopInv(p)' BY <1>t, <1>p DEF EndpointInv, LoopInv
  <2>2. Tame' => BehindInv(p)' BY <1>t, <1>p, S1Stays DEF EndpointInv, BehindInv, Asking, Published
  <2>3. PageInv(p)' BY <1>t, <1>p DEF EndpointInv, PageInv, Published
  <2>4. Regular' => Regular BY DEF Regular
  <2>5. Regular' => KeptInv(p)' BY <2>4, <1>t, <1>p DEF EndpointInv, KeptInv, Published, Asking
  <2>6. Regular' => CompleteInv(p)' BY <2>4, <1>t, <1>p DEF EndpointInv, CompleteInv, Due, Taken, Published, Asking
  <2>7. QED BY <2>1, <2>2, <2>3, <2>5, <2>6 DEF EndpointInv
<1>5. QED BY <1>1, <1>2, <1>3, <1>4 DEF S1Inv

\* The loops go on, give up or end.
LEMMA S1Moves ==
  ASSUME S1Inv, NEW p \in Endpoints,
         \/ O!HeadWaits(p) \/ O!WaitStopped(p) \/ O!PagesLoop(p) \/ O!TryStopped(p) \/ O!PermanentError(p) \/ O!TransientError(p)
         \/ O!BackoffTimedOut(p) \/ O!BackoffStopped(p) \/ O!PageShipped(p)
  PROVE S1Inv'
<1> USE S1Constants
<1>t. /\ O!TypeOK /\ LoopInv(p) /\ oIsStop \in BOOLEAN /\ oCloser \in {"no", "wait", "closed"}
      /\ oAttempt \in [Endpoints -> 0 .. MaxRetryAttempts - 1] /\ oNextPage[p] \in 0 .. N
  BY DEF S1Inv, EndpointInv, O!TypeOK
<1>f. oIsFirstRun[p] => oPc[p] \in {"head", "ended"} BY <1>t DEF LoopInv
<1>1. CASE O!HeadWaits(p) BY <1>1, <1>t, <1>f, S1Move DEF O!HeadWaits, O!loopVars, O!queryVars, O!historyVars
<1>2. CASE O!WaitStopped(p) BY <1>2, <1>t, <1>f, S1Move DEF O!WaitStopped, O!loopVars, O!queryVars, O!historyVars
<1>3. CASE O!PagesLoop(p)
  <2>1. oAttempt' \in [Endpoints -> 0 .. MaxRetryAttempts - 1] /\ \A q \in Endpoints : q # p => oAttempt'[q] = oAttempt[q]
    BY <1>3, <1>t DEF O!PagesLoop
  <2>2. QED BY <2>1, <1>3, <1>t, <1>f, S1Move DEF O!PagesLoop, Asking, O!loopVars, O!historyVars
<1>4. CASE O!TryStopped(p) BY <1>4, <1>t, <1>f, S1Move DEF O!TryStopped, O!loopVars, O!queryVars, O!historyVars
<1>5. CASE O!PermanentError(p) BY <1>5, <1>t, <1>f, S1Move DEF O!PermanentError, O!loopVars, O!queryVars, O!historyVars
<1>6. CASE O!TransientError(p)
  <2>1. oAttempt[p] + 1 >= MaxRetryAttempts \/ oAttempt[p] + 1 < MaxRetryAttempts BY <1>t
  <2>2. QED BY <2>1, <1>6, <1>t, <1>f, S1Move DEF O!TransientError, Asking, O!loopVars, O!queryVars, O!historyVars
<1>7. CASE O!BackoffTimedOut(p)
  <2>1. oAttempt[p] + 1 \in 0 .. MaxRetryAttempts - 1 BY <1>7, <1>t DEF O!BackoffTimedOut, LoopInv
  <2>2. oAttempt' \in [Endpoints -> 0 .. MaxRetryAttempts - 1] /\ \A q \in Endpoints : q # p => oAttempt'[q] = oAttempt[q]
    BY <2>1, <1>7, <1>t DEF O!BackoffTimedOut
  <2>3. QED BY <2>2, <1>7, <1>t, <1>f, S1Move DEF O!BackoffTimedOut, Asking, O!loopVars, O!historyVars
<1>8. CASE O!BackoffStopped(p) BY <1>8, <1>t, <1>f, S1Move DEF O!BackoffStopped, O!loopVars, O!queryVars, O!historyVars
<1>9. CASE O!PageShipped(p)
  <2>1. oNextPage[p] = 0 \/ oNextPage[p] > 0 BY <1>t
  <2>2. QED BY <2>1, <1>9, <1>t, <1>f, S1Move DEF O!PageShipped, O!loopVars, O!queryVars, O!historyVars
<1>10. QED BY <1>1, <1>2, <1>3, <1>4, <1>5, <1>6, <1>7, <1>8, <1>9

\* Close, and the passing of time.
LEMMA S1Rest == ASSUME S1Inv, O!CloseStop \/ O!CloseWait \/ O!Tick \/ UNCHANGED O!vars PROVE S1Inv'
<1> USE S1Constants
<1>t. O!TypeOK /\ PublishedInOrder BY DEF S1Inv
<1>u. UNCHANGED <<oConf, oCreated, oPc, oCycles, oIsFirstRun, oIsDataFound, oLastCreatedAt, oStart, oUntil, oNextPage, oAttempt, oItems,
                  oBegun, oAsked, oShipped>>
  BY DEF O!CloseStop, O!CloseWait, O!Tick, O!vars, O!loopVars, O!queryVars, O!historyVars
<1>s. (oIsStop => oIsStop') /\ oIsStop' \in BOOLEAN /\ oCloser' \in {"no", "wait", "closed"}
  BY <1>t DEF O!CloseStop, O!CloseWait, O!Tick, O!vars, O!TypeOK
<1>n. oNow \in 1 .. MaxTime /\ oNow' \in 1 .. MaxTime /\ oNow <= oNow'
  BY <1>t DEF O!CloseStop, O!CloseWait, O!Tick, O!vars, O!TypeOK
<1>1. O!TypeOK'
  <2>1. oUntil \in [Endpoints -> 0 .. oNow'] /\ oAsked \in [Endpoints -> O!None .. oNow']
    <3>1. \A z \in 0 .. oNow : z \in 0 .. oNow' BY <1>n
    <3>2. \A z \in O!None .. oNow : z \in O!None .. oNow' BY <1>n DEF O!None
    <3>3. QED BY <3>1, <3>2, <1>t DEF O!TypeOK
  <2>2. O!Times' = O!Times /\ O!Starts' = O!Starts BY <1>u, S1Stays
  <2>3. QED BY <2>1, <2>2, <1>t, <1>u, <1>s, <1>n DEF O!TypeOK
<1>2. PublishedInOrder' BY <1>t, <1>u, <1>n DEF PublishedInOrder, Published
<1>3. ASSUME NEW q \in Endpoints PROVE EndpointInv(q)' BY <1>3, <1>u, <1>s, S1Other DEF S1Inv
<1>4. QED BY <1>1, <1>2, <1>3 DEF S1Inv

\* The next window begins right after the time kept.
LEMMA S1Query ==
  ASSUME S1Inv, NEW p \in Endpoints, O!AtOnce(p) \/ O!WaitTimedOut(p)
  PROVE S1Inv'
<1> USE S1Constants
<1>t. O!TypeOK /\ PublishedInOrder /\ EndpointInv(p) BY DEF S1Inv
<1>c. oPc[p] \in {"head", "wait"} /\ O!Query(p) BY DEF O!AtOnce, O!WaitTimedOut
<1>q. /\ oPc' = [oPc EXCEPT ![p] = "pages"] /\ oIsFirstRun' = [oIsFirstRun EXCEPT ![p] = FALSE]
      /\ oIsDataFound' = [oIsDataFound EXCEPT ![p] = FALSE]
      /\ oLastCreatedAt' = [oLastCreatedAt EXCEPT ![p] = IF oIsFirstRun[p] THEN O!WindowStart(p) ELSE @]
      /\ oStart' = [oStart EXCEPT ![p] = O!WindowStart(p)] /\ oUntil' = [oUntil EXCEPT ![p] = oNow]
      /\ oNextPage' = [oNextPage EXCEPT ![p] = 0]
      /\ oBegun' = [oBegun EXCEPT ![p] = IF oIsFirstRun[p] THEN oNow - Back ELSE @]
      /\ UNCHANGED <<oConf, oNow, oCreated, oIsStop, oCloser, oAttempt, oItems, oAsked, oShipped>>
  BY <1>c DEF O!Query
<1>f. oPc[p] = "wait" => ~oIsFirstRun[p] BY <1>t DEF EndpointInv, LoopInv
<1>n. /\ oNow \in 1 .. MaxTime /\ oLastCreatedAt[p] \in O!Times /\ oLastCreatedAt[p] \in Int
      /\ oNow - Back \in O!Times /\ oNow - Back \in O!Starts /\ oLastCreatedAt[p] + 1 \in O!Starts
  <2>1. oConf \in S1Confs /\ oNow \in 1 .. MaxTime /\ oLastCreatedAt[p] \in O!Times BY <1>t DEF O!TypeOK
  <2>2. oNow - Back \in 1 - Back .. MaxTime BY <2>1
  <2>3. QED BY <2>1, <2>2, S1Times
<1>k. O!Times' = O!Times /\ O!Starts' = O!Starts /\ (Tame' <=> Tame) BY <1>q, S1Stays
<1>w. /\ oIsFirstRun[p] => O!WindowStart(p) = oNow - Back
      /\ ~oIsFirstRun[p] => O!WindowStart(p) = oLastCreatedAt[p] + 1
      /\ O!WindowStart(p) \in O!Starts
      /\ oIsFirstRun[p] => O!WindowStart(p) \in O!Times
  BY <1>n DEF O!WindowStart
<1>v. /\ oPc'[p] = "pages" /\ oIsFirstRun'[p] = FALSE /\ oStart'[p] = O!WindowStart(p) /\ oNextPage'[p] = 0
      /\ oLastCreatedAt'[p] = (IF oIsFirstRun[p] THEN O!WindowStart(p) ELSE oLastCreatedAt[p])
      /\ oBegun'[p] = (IF oIsFirstRun[p] THEN oNow - Back ELSE oBegun[p])
  BY <1>t, <1>q DEF O!TypeOK
<1>1. O!TypeOK'
  <2>1. oPc' \in [Endpoints -> {"head", "wait", "pages", "try", "backoff", "ship", "ended"}] BY <1>t, <1>q DEF O!TypeOK
  <2>2. oIsFirstRun' \in [Endpoints -> BOOLEAN] /\ oIsDataFound' \in [Endpoints -> BOOLEAN] BY <1>t, <1>q, Zenon DEF O!TypeOK
  <2>3. oCycles' \in [Endpoints -> 0 .. oConf.cycles]
    <3>1. oCycles \in [Endpoints -> 0 .. oConf.cycles] /\ oConf.cycles \in Nat BY <1>t, S1Types DEF O!TypeOK
    <3>2. oCycles[p] \in 0 .. oConf.cycles BY <3>1
    <3>3. oCycles[p] < oConf.cycles => oCycles[p] + 1 \in 0 .. oConf.cycles BY <3>1, <3>2
    <3>4. QED BY <3>1, <3>3, <1>c DEF O!Query
  <2>4. oLastCreatedAt' \in [Endpoints -> O!Times]
    <3>1. oLastCreatedAt \in [Endpoints -> O!Times] BY <1>t DEF O!TypeOK
    <3>2. QED BY <3>1, <1>q, <1>w
  <2>5. oStart' \in [Endpoints -> O!Starts]
    <3>1. oStart \in [Endpoints -> O!Starts] BY <1>t DEF O!TypeOK
    <3>2. QED BY <3>1, <1>q, <1>w
  <2>6. oUntil' \in [Endpoints -> 0 .. oNow] /\ oNextPage' \in [Endpoints -> 0 .. N]
    <3>1. oUntil \in [Endpoints -> 0 .. oNow] /\ oNextPage \in [Endpoints -> 0 .. N] BY <1>t DEF O!TypeOK
    <3>2. oNow \in 0 .. oNow /\ 0 \in 0 .. N BY <1>n
    <3>3. QED BY <3>1, <3>2, <1>q
  <2>7. oBegun' \in [Endpoints -> Int]
    <3>1. oBegun \in [Endpoints -> Int] /\ oNow - Back \in Int BY <1>t, <1>n DEF O!TypeOK
    <3>2. QED BY <3>1, <1>q
  <2>8. QED BY <2>1, <2>2, <2>3, <2>4, <2>5, <2>6, <2>7, <1>t, <1>q, <1>k DEF O!TypeOK
<1>2. PublishedInOrder' BY <1>t, <1>q DEF PublishedInOrder, Published
<1>3. ASSUME NEW q \in Endpoints, q # p PROVE EndpointInv(q)'
  <2>1. /\ oPc'[q] = oPc[q] /\ oIsFirstRun'[q] = oIsFirstRun[q] /\ oLastCreatedAt'[q] = oLastCreatedAt[q]
        /\ oStart'[q] = oStart[q] /\ oNextPage'[q] = oNextPage[q] /\ oBegun'[q] = oBegun[q]
    BY <1>3, <1>t, <1>q DEF O!TypeOK
  <2>2. QED BY <2>1, <1>q, S1Other DEF S1Inv
<1>y. /\ \A e \in O!Events : oCreated[e] \in Int /\ oShipped[p][e] \in 0 .. 2
      /\ \A e \in O!Events : Published(e) => oCreated[e] >= 1
      /\ oLastCreatedAt[p] \in Int /\ oBegun[p] \in Int /\ oAsked[p] \in Int
  <2>1. \A e \in O!Events : Published(e) => oCreated[e] >= 1 BY <1>t DEF PublishedInOrder
  <2>2. QED BY <2>1, <1>t, S1Types
<1>4. LoopInv(p)' BY <1>v DEF LoopInv
<1>5. ASSUME Tame' PROVE BehindInv(p)'
  <2>0. BehindInv(p) BY <1>5, <1>k, <1>t DEF EndpointInv
  <2>1. ASSUME NEW e \in O!Events, oShipped[p][e] > 0
        PROVE oShipped[p][e] = 1 /\ Published(e) /\ oCreated[e] <= oLastCreatedAt'[p] /\ oCreated[e] < oStart'[p]
    <3>1. ~oIsFirstRun[p] BY <2>1, <1>t, <1>y DEF EndpointInv, LoopInv
    <3>2. oShipped[p][e] = 1 /\ Published(e) /\ oCreated[e] <= oLastCreatedAt[p] BY <2>0, <2>1 DEF BehindInv
    <3>3. QED BY <3>1, <3>2, <1>v, <1>w, <1>y
  <2>2. QED BY <2>1, <1>v, <1>q DEF BehindInv, Published
<1>6. PageInv(p)' BY <1>v DEF PageInv
<1>7. ASSUME Regular' PROVE KeptInv(p)' /\ CompleteInv(p)'
  <2>0. Regular BY <1>7, <1>q DEF Regular
  <2>1. KeptInv(p) /\ CompleteInv(p) BY <2>0, <1>t DEF EndpointInv
  <2>2. KeptInv(p)'
    <3>1. CASE oIsFirstRun[p] BY <3>1, <1>v, <1>w, <1>n DEF KeptInv
    <3>2. CASE ~oIsFirstRun[p] BY <3>2, <2>1, <1>v, <1>w, <1>n, <1>q DEF KeptInv, Published
    <3>3. QED BY <3>1, <3>2
  <2>3. ASSUME NEW e \in O!Events, Published(e), oBegun'[p] < oCreated[e]
        PROVE /\ oCreated[e] <= oLastCreatedAt'[p] => oShipped[p][e] = 1
              /\ oCreated[e] < oStart'[p] => oShipped[p][e] = 1
              /\ oCreated[e] < oAsked[p] => oShipped[p][e] = 1
    <3>1. CASE oIsFirstRun[p]
      <4>1. oAsked[p] = -1 /\ oCreated[e] >= 1 BY <3>1, <2>3, <1>t, <1>y DEF EndpointInv, LoopInv, O!None
      <4>2. oNow - Back < oCreated[e] BY <3>1, <2>3, <1>v
      <4>3. QED BY <3>1, <4>1, <4>2, <1>v, <1>w, <1>y, <1>n
    <3>2. CASE ~oIsFirstRun[p]
      <4>1. Due(p, e) BY <3>2, <2>3, <1>v DEF Due
      <4>2. oCreated[e] <= oLastCreatedAt[p] => oShipped[p][e] = 1 BY <4>1, <2>1 DEF CompleteInv
      <4>3. oCreated[e] < oAsked[p] => oShipped[p][e] = 1 BY <4>1, <2>1, <1>c DEF CompleteInv, Taken
      <4>4. QED BY <4>2, <4>3, <3>2, <1>v, <1>w, <1>y
    <3>3. QED BY <3>1, <3>2
  <2>4. \A e \in O!Events : ~(e <= oNextPage'[p]) BY <1>v
  <2>5. CompleteInv(p)' BY <2>3, <2>4, <1>v, <1>q DEF CompleteInv, Due, Taken, Published, Asking
  <2>6. QED BY <2>2, <2>5
<1>8. EndpointInv(p)' BY <1>4, <1>5, <1>6, <1>7 DEF EndpointInv
<1>9. QED BY <1>1, <1>2, <1>3, <1>8 DEF S1Inv

\* An event that is published now is behind nothing that was shipped or fetched.
LEMMA S1Publish == ASSUME S1Inv, NEW n \in O!Events, O!Publish(n) PROVE S1Inv'
<1> USE S1Constants
<1>t. O!TypeOK /\ PublishedInOrder BY DEF S1Inv
<1>u. UNCHANGED <<oConf, oNow, oIsStop, oCloser, oPc, oCycles, oIsFirstRun, oIsDataFound, oLastCreatedAt, oStart, oUntil, oNextPage,
                  oAttempt, oItems, oBegun, oAsked, oShipped>>
  BY DEF O!Publish, O!loopVars, O!queryVars, O!historyVars
<1>n. oNow \in 1 .. MaxTime /\ oConf.Ties \in BOOLEAN /\ \A e \in O!Events : oCreated[e] \in Int BY <1>t, S1Types DEF O!TypeOK
<1>v. oCreated'[n] = oNow /\ ~Published(n) /\ \A e \in O!Events : e # n => oCreated'[e] = oCreated[e]
  BY <1>t DEF O!Publish, O!TypeOK, Published
<1>w. \A e \in O!Events : Published(e)' <=> (e = n \/ Published(e)) BY <1>v, <1>n DEF Published, O!None
<1>f. \A f \in O!Events : f < n => Published(f) /\ oCreated[f] <= oNow /\ (~oConf.Ties => oCreated[f] < oNow)
  <2> SUFFICES ASSUME NEW f \in O!Events, f < n
               PROVE Published(f) /\ oCreated[f] <= oNow /\ (~oConf.Ties => oCreated[f] < oNow)
    OBVIOUS
  <2>1. n - 1 \in O!Events /\ f <= n - 1 /\ n > 1 BY DEF O!Events
  <2>2. Published(n - 1) /\ (oCreated[n - 1] < oNow \/ oConf.Ties) BY <2>1, <1>u DEF O!Publish, Published
  <2>3. oCreated[n - 1] <= oNow BY <2>1, <2>2, <1>t, <1>n DEF PublishedInOrder
  <2>4. CASE f = n - 1 BY <2>2, <2>3, <2>4
  <2>5. CASE f < n - 1
    <3>1. Published(f) /\ oCreated[f] <= oCreated[n - 1] BY <2>1, <2>2, <2>5, <1>t DEF PublishedInOrder
    <3>2. QED BY <3>1, <2>1, <2>2, <2>3, <1>n
  <2>6. QED BY <2>1, <2>4, <2>5
\* Those that are published are before it.
<1>a. \A e \in O!Events : Published(e) => e < n
  <2> SUFFICES ASSUME NEW e \in O!Events, Published(e), e >= n PROVE FALSE OBVIOUS
  <2>1. e # n BY <1>v
  <2>2. n < e BY <2>1
  <2>3. Published(n) BY <2>2, <1>t DEF PublishedInOrder
  <2>4. QED BY <2>3, <1>v
<1>1. O!TypeOK'
  <2>1. oCreated' \in [O!Events -> O!None .. MaxTime]
    <3>1. oNow \in O!None .. MaxTime BY <1>n DEF O!None
    <3>2. QED BY <3>1, <1>t DEF O!Publish, O!TypeOK
  <2>2. QED BY <2>1, <1>t, <1>u, S1Stays DEF O!TypeOK
<1>2. PublishedInOrder'
  <2> SUFFICES ASSUME NEW e \in O!Events, Published(e)'
               PROVE /\ oCreated'[e] \in 1 .. oNow
                     /\ \A f \in O!Events :
                          f < e => Published(f)' /\ oCreated'[f] <= oCreated'[e] /\ (~oConf.Ties => oCreated'[f] < oCreated'[e])
    BY <1>u DEF PublishedInOrder
  <2>1. CASE e = n BY <2>1, <1>v, <1>w, <1>f, <1>n
  <2>2. CASE e # n
    <3>1. Published(e) /\ oCreated'[e] = oCreated[e] BY <2>2, <1>w, <1>v
    <3>2. e < n BY <3>1, <1>a
    <3>3. \A f \in O!Events : f < e => f # n BY <3>2
    <3>4. QED BY <3>1, <3>3, <1>v, <1>w, <1>t DEF PublishedInOrder
  <2>3. QED BY <2>1, <2>2
<1>3. ASSUME NEW p \in Endpoints PROVE EndpointInv(p)'
  <2>e. EndpointInv(p) BY DEF S1Inv
  <2>y. /\ oLastCreatedAt[p] \in Int /\ oBegun[p] \in Int /\ oAsked[p] \in Int /\ oStart[p] \in Int /\ oAsked[p] <= oNow
        /\ oNextPage[p] \in Nat /\ (oNextPage[p] > 0 => oNextPage[p] \in O!Events) /\ oItems[p] \subseteq O!Events
    BY <1>t, S1Types
  <2>1. LoopInv(p)' BY <2>e, <1>u DEF EndpointInv, LoopInv
  <2>2. \A e \in O!Events : Published(e) => Published(e)' /\ oCreated'[e] = oCreated[e] BY <1>v, <1>w
  <2>3. Tame' => BehindInv(p)' BY <2>e, <2>2, <1>u, S1Stays DEF EndpointInv, BehindInv, Asking
  <2>4. PageInv(p)' BY <2>e, <2>y, <2>2, <1>u DEF EndpointInv, PageInv
  <2>5. ASSUME Regular' PROVE KeptInv(p)' /\ CompleteInv(p)'
    <3>0. Regular BY <2>5, <1>u DEF Regular
    <3>1. KeptInv(p) /\ CompleteInv(p) BY <3>0, <2>e DEF EndpointInv
    <3>2. KeptInv(p)' BY <3>1, <2>2, <1>u DEF KeptInv, Asking
    <3>3. ASSUME NEW e \in O!Events, e # n, Due(p, e)' PROVE Due(p, e) /\ oCreated'[e] = oCreated[e]
      BY <3>3, <1>v, <1>w, <1>u DEF Due
    <3>4. ASSUME Due(p, n)'
          PROVE /\ oLastCreatedAt[p] < oNow
                /\ Asking(p) \/ oPc[p] = "ship" => oStart[p] <= oNow
                /\ oNextPage[p] < n /\ (oPc[p] = "ship" => \A f \in oItems[p] : f < n)
      <4>1. oLastCreatedAt[p] < oNow
        <5>1. oBegun[p] < oNow BY <3>4, <1>v, <1>u DEF Due
        <5>2. \A e \in O!Events : Published(e) => oCreated[e] < oNow
          BY <1>a, <1>f, <3>0 DEF Regular
        <5>3. oLastCreatedAt[p] <= 0 \/ oLastCreatedAt[p] <= oBegun[p] \/ oLastCreatedAt[p] < oNow
          BY <3>1, <5>2 DEF KeptInv
        <5>4. QED BY <5>1, <5>3, <2>y, <1>n
      <4>2. Asking(p) \/ oPc[p] = "ship" => oStart[p] <= oLastCreatedAt[p] + 1 BY <3>1 DEF KeptInv
      <4>3. oNextPage[p] < n BY <2>e, <2>y, <1>a DEF EndpointInv, PageInv
      <4>4. oPc[p] = "ship" => \A f \in oItems[p] : f < n BY <2>e, <2>y, <1>a DEF EndpointInv, PageInv
      <4>5. QED BY <4>1, <4>2, <4>3, <4>4, <2>y, <1>n
    <3>5. ASSUME NEW e \in O!Events, Due(p, e)'
          PROVE /\ oCreated'[e] <= oLastCreatedAt[p] => oShipped[p][e] = 1
                /\ Asking(p) /\ (oCreated'[e] < oStart[p] \/ e <= oNextPage[p]) => oShipped[p][e] = 1
                /\ oPc[p] = "ship" =>
                     /\ \A f \in oItems[p] : e < f => Taken(p, e)
                     /\ oNextPage[p] > 0 /\ (oCreated'[e] < oStart[p] \/ e <= oNextPage[p]) => Taken(p, e)
                /\ oCreated'[e] < oAsked[p] => Taken(p, e)
      <4>1. CASE e = n
        <5>1. oCreated'[e] = oNow BY <4>1, <1>v
        <5>2. /\ oLastCreatedAt[p] < oNow /\ (Asking(p) \/ oPc[p] = "ship" => oStart[p] <= oNow)
              /\ oNextPage[p] < e /\ (oPc[p] = "ship" => \A f \in oItems[p] : f < e)
          BY <4>1, <3>4, <3>5
        <5>3. ~(oNow <= oLastCreatedAt[p]) /\ ~(e <= oNextPage[p]) /\ ~(oNow < oAsked[p]) BY <5>2, <2>y, <1>n
        <5>4. Asking(p) \/ oPc[p] = "ship" => ~(oNow < oStart[p]) BY <5>2, <2>y, <1>n
        <5>5. oPc[p] = "ship" => \A f \in oItems[p] : ~(e < f) BY <5>2, <2>y
        <5>6. QED BY <5>1, <5>3, <5>4, <5>5
      <4>2. CASE e # n BY <4>2, <3>5, <3>3, <3>1 DEF CompleteInv
      <4>3. QED BY <4>1, <4>2
    <3>6. CompleteInv(p)' BY <3>5, <1>u DEF CompleteInv, Taken, Asking
    <3>7. QED BY <3>2, <3>6
  <2>6. QED BY <2>1, <2>3, <2>4, <2>5 DEF EndpointInv
<1>4. QED BY <1>1, <1>2, <1>3 DEF S1Inv

Less == {ss \in Nat \X Nat : ss[1] < ss[2]}

\* A set of events has an oldest one.
LEMMA OldestExists == ASSUME NEW T, T \subseteq O!Events, T # {} PROVE O!Oldest(T) \in T /\ \A y \in T : O!Oldest(T) <= y
<1>1. IsWellFoundedOn(Less, Nat) BY NatLessThanWellFounded DEF OpToRel, Less
<1>2. T \subseteq Nat BY DEF O!Events
<1>3. PICK x \in T : \A y \in T : ~ (<<y, x>> \in Less) BY <1>1, <1>2, WFMin
<1>4. \A y \in T : x <= y
  <2> TAKE y \in T
  <2>1. x \in Nat /\ y \in Nat BY <1>2
  <2>2. <<y, x>>[1] = y /\ <<y, x>>[2] = x /\ <<y, x>> \in Nat \X Nat BY <2>1
  <2>3. ~(y < x) BY <1>3, <2>2, Zenon DEF Less
  <2>4. QED BY <2>1, <2>3
<1>5. QED BY <1>4, Zenon DEF O!Oldest

\* A set of events has a newest one.
LEMMA NewestExists == ASSUME NEW T, T \subseteq O!Events, T # {} PROVE O!Newest(T) \in T /\ \A y \in T : y <= O!Newest(T)
<1> USE S1Constants
<1> DEFINE D == {N + 1 - x : x \in T}
<1>1. D \subseteq O!Events
  <2>1. \A x \in T : N + 1 - x \in O!Events BY DEF O!Events
  <2>2. QED BY <2>1
<1>2. D # {}
  <2>1. PICK x \in T : TRUE OBVIOUS
  <2>2. N + 1 - x \in D OBVIOUS
  <2>3. QED BY <2>2
<1>3. PICK d \in D : \A y \in D : d <= y BY <1>1, <1>2, OldestExists
<1>4. PICK x \in T : d = N + 1 - x OBVIOUS
<1>5. \A y \in T : y <= x
  <2> TAKE y \in T
  <2>1. N + 1 - y \in D OBVIOUS
  <2>2. d <= N + 1 - y BY <2>1, <1>3
  <2>3. QED BY <2>2, <1>4 DEF O!Events
<1>6. QED BY <1>5, Zenon DEF O!Newest

\* What a Ship advances: the time kept is not before the event, and it is the event's time
\* if it has one.
LEMMA S1Found ==
  ASSUME S1Inv, NEW p \in Endpoints, NEW o \in O!Events, o \in oItems[p], oPc[p] = "ship", O!Found(p, o)
  PROVE /\ oLastCreatedAt' \in [Endpoints -> O!Times] /\ oIsDataFound' \in [Endpoints -> BOOLEAN]
        /\ \A q \in Endpoints : q # p => oLastCreatedAt'[q] = oLastCreatedAt[q]
        /\ Published(o) /\ (oConf.Missing = {} => oLastCreatedAt'[p] = oCreated[o])
        /\ Tame => /\ oCreated[o] <= oLastCreatedAt'[p]
                   /\ \A e \in O!Events : oShipped[p][e] > 0 => e < o /\ oCreated[e] <= oLastCreatedAt'[p]
<1> USE S1Constants
<1>t. O!TypeOK /\ PublishedInOrder /\ EndpointInv(p) BY DEF S1Inv
<1>n. oNow \in 1 .. MaxTime BY <1>t DEF O!TypeOK
<1>y. \A e \in O!Events : oCreated[e] \in Int BY <1>t, S1Types
<1>1. Published(o) BY <1>t DEF EndpointInv, PageInv
<1>2. oCreated[o] \in 1 .. oNow BY <1>1, <1>t DEF PublishedInOrder
<1>z. /\ 1 - Back .. MaxTime \subseteq O!Times /\ oNow + oConf.Zone \in O!Times /\ O!Times \subseteq Int /\ oConf.Zone \in Int
  <2>1. oConf \in S1Confs BY <1>t DEF O!TypeOK
  <2>2. QED BY <2>1, <1>n, S1Times
<1>3. /\ O!TimeOf(o) \in O!Times /\ O!TimeOf(o) \in Int
      /\ Tame => oCreated[o] <= O!TimeOf(o)
      /\ oConf.Missing = {} => O!TimeOf(o) = oCreated[o]
  <2>1. oCreated[o] \in 1 - Back .. MaxTime BY <1>2, <1>n
  <2>2. CASE o \in oConf.Missing
    <3>1. O!TimeOf(o) = oNow + oConf.Zone /\ oConf.Missing # {} BY <2>2 DEF O!TimeOf
    <3>2. Tame => oConf.Zone >= 0 BY <3>1 DEF Tame
    <3>3. QED BY <3>1, <3>2, <1>z, <1>2, <1>n
  <2>3. CASE o \notin oConf.Missing
    <3>1. O!TimeOf(o) = oCreated[o] BY <2>3 DEF O!TimeOf
    <3>2. QED BY <3>1, <2>1, <1>z, <1>y
  <2>4. QED BY <2>2, <2>3
<1>4. oLastCreatedAt \in [Endpoints -> O!Times] BY <1>t DEF O!TypeOK
<1>5. oLastCreatedAt' = [oLastCreatedAt EXCEPT ![p] = O!TimeOf(o)] BY DEF O!Found, O!Advance
<1>6. oLastCreatedAt' \in [Endpoints -> O!Times] BY <1>3, <1>4, <1>5
<1>7. oLastCreatedAt'[p] = O!TimeOf(o) /\ \A q \in Endpoints : q # p => oLastCreatedAt'[q] = oLastCreatedAt[q] BY <1>4, <1>5
<1>8. oIsDataFound' \in [Endpoints -> BOOLEAN] BY <1>t, Zenon DEF O!Found, O!TypeOK
<1>9. ASSUME Tame, NEW e \in O!Events, oShipped[p][e] > 0 PROVE e < o /\ oCreated[e] <= oLastCreatedAt'[p]
  <2>1. e < o BY <1>9, <1>t DEF EndpointInv, BehindInv
  <2>2. oCreated[e] <= oCreated[o] BY <2>1, <1>1, <1>t DEF PublishedInOrder
  <2>3. O!TimeOf(o) \in Int /\ oCreated[o] \in Int BY <1>3, <1>2
  <2>4. oCreated[o] <= O!TimeOf(o) BY <1>9, <1>3
  <2>5. oLastCreatedAt'[p] = O!TimeOf(o) BY <1>7
  <2>6. QED BY <2>1, <2>2, <2>3, <2>4, <2>5, <1>y
<1>10. QED BY <1>1, <1>3, <1>6, <1>7, <1>8, <1>9

\* An event is shipped: those that are left are after it, those that are due before it are
\* shipped already.
LEMMA S1Ship == ASSUME S1Inv, NEW p \in Endpoints, O!Ship(p) PROVE S1Inv'
<1> USE S1Constants
<1>t. O!TypeOK /\ PublishedInOrder /\ EndpointInv(p) BY DEF S1Inv
<1>u. UNCHANGED <<oConf, oNow, oCreated, oIsStop, oCloser, oPc, oCycles, oIsFirstRun, oStart, oUntil, oNextPage, oAttempt, oBegun, oAsked>>
  BY DEF O!Ship
<1>c. oPc[p] = "ship" /\ oItems[p] # {} BY DEF O!Ship
<1>y. /\ oItems[p] \subseteq O!Events /\ oNextPage[p] \in Nat /\ oStart[p] \in Int /\ oBegun[p] \in Int
      /\ \A e \in O!Events : oCreated[e] \in Int /\ oShipped[p][e] \in 0 .. 2
  BY <1>t, S1Types
<1>o. PICK o \in O!Events : o = O!Oldest(oItems[p]) /\ o \in oItems[p] /\ \A f \in oItems[p] : o <= f BY <1>c, <1>y, OldestExists
<1>a. /\ O!Found(p, o) /\ oItems' = [oItems EXCEPT ![p] = @ \ {o}]
      /\ oShipped' = [oShipped EXCEPT ![p][o] = IF @ = 2 THEN 2 ELSE @ + 1]
  BY <1>o, Zenon DEF O!Ship
<1>f. /\ oLastCreatedAt' \in [Endpoints -> O!Times] /\ oIsDataFound' \in [Endpoints -> BOOLEAN]
      /\ \A q \in Endpoints : q # p => oLastCreatedAt'[q] = oLastCreatedAt[q]
      /\ Published(o) /\ (oConf.Missing = {} => oLastCreatedAt'[p] = oCreated[o])
      /\ Tame => /\ oCreated[o] <= oLastCreatedAt'[p]
                 /\ \A e \in O!Events : oShipped[p][e] > 0 => e < o /\ oCreated[e] <= oLastCreatedAt'[p]
  BY <1>o, <1>a, <1>c, S1Found
<1>k. O!Times' = O!Times /\ O!Starts' = O!Starts /\ (Tame' <=> Tame) BY <1>u, S1Stays
<1>z. Tame => oShipped[p][o] = 0
  <2> SUFFICES ASSUME Tame PROVE oShipped[p][o] = 0 OBVIOUS
  <2>1. ~(o < o) OBVIOUS
  <2>2. ~(oShipped[p][o] > 0) BY <2>1, <1>f
  <2>3. QED BY <2>2, <1>y
<1>s. /\ oShipped' \in [Endpoints -> [O!Events -> 0 .. 2]]
      /\ (Tame => oShipped'[p][o] = 1) /\ \A e \in O!Events : e # o => oShipped'[p][e] = oShipped[p][e]
      /\ \A q \in Endpoints : q # p => oShipped'[q] = oShipped[q]
  <2>1. oShipped \in [Endpoints -> [O!Events -> 0 .. 2]] /\ oShipped[p] \in [O!Events -> 0 .. 2] BY <1>t DEF O!TypeOK
  <2>2. PICK x : x = (IF oShipped[p][o] = 2 THEN 2 ELSE oShipped[p][o] + 1) OBVIOUS
  <2>3. x \in 0 .. 2 /\ (Tame => x = 1)
    <3>1. oShipped[p][o] \in 0 .. 2 BY <2>1
    <3>2. QED BY <3>1, <2>2, <1>z
  <2>4. oShipped' = [oShipped EXCEPT ![p] = [oShipped[p] EXCEPT ![o] = x]] BY <1>a, <2>2, Zenon
  <2>5. [oShipped[p] EXCEPT ![o] = x] \in [O!Events -> 0 .. 2] BY <2>1, <2>3
  <2>6. QED BY <2>1, <2>3, <2>4, <2>5
<1>i. /\ oItems' \in [Endpoints -> SUBSET O!Events] /\ oItems'[p] = oItems[p] \ {o}
      /\ \A q \in Endpoints : q # p => oItems'[q] = oItems[q]
  BY <1>a, <1>t DEF O!TypeOK
<1>1. O!TypeOK' BY <1>t, <1>u, <1>k, <1>f, <1>s, <1>i DEF O!TypeOK
<1>2. PublishedInOrder' BY <1>t, <1>u DEF PublishedInOrder, Published
<1>3. ASSUME NEW q \in Endpoints, q # p PROVE EndpointInv(q)' BY <1>3, <1>u, <1>f, <1>s, <1>i, S1Other DEF S1Inv
<1>4. LoopInv(p)' BY <1>t, <1>u, <1>c DEF EndpointInv, LoopInv
<1>5. ASSUME Tame' PROVE BehindInv(p)'
  <2>0. Tame /\ BehindInv(p) BY <1>5, <1>k, <1>t DEF EndpointInv
  <2>1. ASSUME NEW e \in O!Events, oShipped'[p][e] > 0
        PROVE /\ oShipped'[p][e] = 1 /\ Published(e) /\ oCreated[e] <= oLastCreatedAt'[p]
              /\ \A f \in oItems'[p] : e < f
              /\ oNextPage[p] > 0 => oCreated[e] < oStart[p] \/ e <= oNextPage[p]
    <3>1. CASE e = o
      <4>1. \A f \in oItems'[p] : o < f BY <1>i, <1>o, <1>y
      <4>2. oNextPage[p] > 0 => o <= oNextPage[p] BY <1>t, <1>c, <1>o DEF EndpointInv, PageInv
      <4>3. QED BY <3>1, <4>1, <4>2, <2>0, <1>f, <1>s
    <3>2. CASE e # o
      <4>1. oShipped[p][e] > 0 /\ oShipped'[p][e] = oShipped[p][e] BY <3>2, <2>1, <1>s
      <4>2. QED BY <4>1, <2>0, <1>f, <1>i, <1>c DEF BehindInv
    <3>3. QED BY <3>1, <3>2
  <2>2. QED BY <2>1, <1>u, <1>c DEF BehindInv, Published, Asking
<1>6. PageInv(p)' BY <1>t, <1>u, <1>i DEF EndpointInv, PageInv, Published
<1>7. ASSUME Regular' PROVE KeptInv(p)' /\ CompleteInv(p)'
  <2>0. Regular /\ Tame /\ oLastCreatedAt'[p] = oCreated[o] BY <1>7, <1>u, <1>f DEF Regular, Tame
  <2>1. KeptInv(p) /\ CompleteInv(p) BY <2>0, <1>t DEF EndpointInv
  <2>2. oStart[p] <= oCreated[o] BY <1>t, <1>c, <1>o, <1>y DEF EndpointInv, PageInv
  <2>3. KeptInv(p)'
    <3>1. oStart[p] <= oLastCreatedAt'[p] + 1 BY <2>0, <2>2, <1>y
    <3>2. QED BY <3>1, <2>0, <1>u, <1>f DEF KeptInv, Published, Asking
  <2>4. ASSUME NEW e \in O!Events, Taken(p, e) PROVE Taken(p, e)'
    <3>1. CASE e = o BY <3>1, <2>0, <1>s DEF Taken
    <3>2. CASE e # o BY <3>2, <2>4, <1>s, <1>i, <1>u DEF Taken
    <3>3. QED BY <3>1, <3>2
  <2>5. ASSUME NEW e \in O!Events, Due(p, e), oCreated[e] <= oCreated[o] PROVE oShipped'[p][e] = 1
    <3>1. ~(o < e)
      <4>1. o < e => oCreated[o] < oCreated[e] BY <2>5, <2>0, <1>t DEF Due, Regular, PublishedInOrder
      <4>2. QED BY <4>1, <2>5, <1>y
    <3>2. CASE e = o BY <3>2, <2>0, <1>s
    <3>3. CASE e # o
      <4>1. e < o BY <3>1, <3>3 DEF O!Events
      <4>2. Taken(p, e) BY <4>1, <2>5, <2>1, <1>c, <1>o DEF CompleteInv
      <4>3. e \notin oItems[p] BY <4>1, <1>o, <1>y
      <4>4. QED BY <4>2, <4>3, <3>3, <1>s DEF Taken
    <3>4. QED BY <3>2, <3>3
  <2>6. CompleteInv(p)'
    <3> SUFFICES ASSUME NEW e \in O!Events, Due(p, e)'
                 PROVE /\ oCreated[e] <= oCreated[o] => oShipped'[p][e] = 1
                       /\ \A f \in oItems'[p] : e < f => Taken(p, e)'
                       /\ oNextPage[p] > 0 /\ (oCreated[e] < oStart[p] \/ e <= oNextPage[p]) => Taken(p, e)'
                       /\ oCreated[e] < oAsked[p] => Taken(p, e)'
      BY <2>0, <1>u, <1>c DEF CompleteInv, Asking
    <3>1. Due(p, e) BY <1>u DEF Due, Published
    <3>2. \A f \in oItems'[p] : e < f => Taken(p, e) BY <3>1, <2>1, <1>c, <1>i DEF CompleteInv
    <3>3. oNextPage[p] > 0 /\ (oCreated[e] < oStart[p] \/ e <= oNextPage[p]) => Taken(p, e)
      BY <3>1, <2>1, <1>c DEF CompleteInv
    <3>4. oCreated[e] < oAsked[p] => Taken(p, e) BY <3>1, <2>1 DEF CompleteInv
    <3>5. QED BY <3>1, <3>2, <3>3, <3>4, <2>4, <2>5
  <2>7. QED BY <2>3, <2>6
<1>8. EndpointInv(p)' BY <1>4, <1>5, <1>6, <1>7 DEF EndpointInv
<1>9. QED BY <1>1, <1>2, <1>3, <1>8 DEF S1Inv

\* A failed Ship counts as found, and doStop is set.
LEMMA S1ShipFails == ASSUME S1Inv, NEW p \in Endpoints, O!ShipFails(p) PROVE S1Inv'
<1> USE S1Constants
<1>t. O!TypeOK /\ PublishedInOrder /\ EndpointInv(p) BY DEF S1Inv
<1>u. UNCHANGED <<oConf, oNow, oCreated, oCloser, oCycles, oIsFirstRun, oStart, oUntil, oNextPage, oAttempt, oBegun, oAsked, oShipped>>
  BY DEF O!ShipFails, O!historyVars
<1>c. oPc[p] = "ship" /\ oItems[p] # {} /\ oIsStop' = TRUE BY DEF O!ShipFails
<1>y. oItems[p] \subseteq O!Events BY <1>t, S1Types
<1>o. PICK o \in O!Events : o = O!Oldest(oItems[p]) /\ o \in oItems[p] BY <1>c, <1>y, OldestExists
<1>f. /\ oLastCreatedAt' \in [Endpoints -> O!Times] /\ oIsDataFound' \in [Endpoints -> BOOLEAN]
      /\ \A q \in Endpoints : q # p => oLastCreatedAt'[q] = oLastCreatedAt[q]
      /\ Tame => \A e \in O!Events : oShipped[p][e] > 0 => oCreated[e] <= oLastCreatedAt'[p]
  <2>1. O!Found(p, o) BY <1>o DEF O!ShipFails
  <2>2. QED BY <2>1, <1>o, <1>c, S1Found
<1>i. /\ oItems' \in [Endpoints -> SUBSET O!Events] /\ \A q \in Endpoints : q # p => oItems'[q] = oItems[q]
      /\ oPc' \in [Endpoints -> {"head", "wait", "pages", "try", "backoff", "ship", "ended"}] /\ oPc'[p] = "head"
      /\ \A q \in Endpoints : q # p => oPc'[q] = oPc[q]
  BY <1>t DEF O!TypeOK, O!ShipFails
<1>1. O!TypeOK'
  <2>1. oIsStop' \in BOOLEAN BY <1>c
  <2>2. O!Times' = O!Times /\ O!Starts' = O!Starts BY <1>u, S1Stays
  <2>3. QED BY <2>1, <2>2, <1>t, <1>u, <1>f, <1>i DEF O!TypeOK
<1>2. PublishedInOrder' BY <1>t, <1>u DEF PublishedInOrder, Published
<1>3. ASSUME NEW q \in Endpoints, q # p PROVE EndpointInv(q)' BY <1>3, <1>u, <1>f, <1>c, <1>i, S1Other DEF S1Inv
<1>4. LoopInv(p)' BY <1>t, <1>u, <1>c, <1>i DEF EndpointInv, LoopInv
<1>5. ASSUME Tame' PROVE BehindInv(p)'
  <2>1. Tame /\ BehindInv(p) BY <1>5, <1>u, <1>t, S1Stays DEF EndpointInv
  <2>2. QED BY <2>1, <1>u, <1>f, <1>i DEF BehindInv, Published, Asking
<1>6. PageInv(p)' BY <1>t, <1>u, <1>i DEF EndpointInv, PageInv, Published
<1>7. ~Regular' BY <1>c DEF Regular
<1>8. EndpointInv(p)' BY <1>4, <1>5, <1>6, <1>7 DEF EndpointInv
<1>9. QED BY <1>1, <1>2, <1>3, <1>8 DEF S1Inv

\* A page has the first events of the window: with one it has all before it, and it is
\* empty only if the window is.
LEMMA AnswerFacts ==
  ASSUME O!TypeOK, NEW p \in Endpoints
  PROVE /\ O!Answer(p) \subseteq O!Window(p) /\ O!Window(p) \subseteq O!Events
        /\ \A f \in O!Answer(p) : \A e \in O!Window(p) : e < f => e \in O!Answer(p)
        /\ O!Window(p) # {} => O!Answer(p) # {}
<1> USE S1Constants
<1> DEFINE B(e) == {f \in O!Window(p) : f < e}
<1>s. oConf.PageSize \in Nat \ {0} BY S1Types
<1>1. O!Answer(p) \subseteq O!Window(p) /\ O!Window(p) \subseteq O!Events BY DEF O!Answer, O!Window
<1>2. \A e \in O!Window(p) : e \in O!Answer(p) <=> Cardinality(B(e)) < oConf.PageSize
  <2>1. \A e \in O!Window(p) : e \in O!Answer(p) <=> O!Cardinality(B(e)) < oConf.PageSize BY DEF O!Answer
  <2>2. \A e : O!Cardinality(B(e)) = Cardinality(B(e)) BY DEF O!Cardinality, Cardinality
  <2>3. QED BY <2>1, <2>2
<1>3. IsFiniteSet(O!Window(p))
  <2>1. IsFiniteSet(O!Events) BY FS_Interval DEF O!Events
  <2>2. QED BY <2>1, <1>1, FS_Subset
<1>4. \A e \in O!Window(p) : IsFiniteSet(B(e)) /\ Cardinality(B(e)) \in Nat
  <2> TAKE e \in O!Window(p)
  <2>1. B(e) \subseteq O!Window(p) OBVIOUS
  <2>2. IsFiniteSet(B(e)) BY <2>1, <1>3, FS_Subset
  <2>3. QED BY <2>2, FS_CardinalityType
<1>5. ASSUME NEW f \in O!Answer(p), NEW e \in O!Window(p), e < f PROVE e \in O!Answer(p)
  <2>1. f \in O!Window(p) /\ e \in Nat /\ f \in Nat /\ \A g \in O!Window(p) : g \in Nat BY <1>1 DEF O!Events
  <2>0. \A g \in O!Window(p) : g < e => g < f BY <2>1, <1>5
  <2>2. B(e) \subseteq B(f) BY <2>0, Zenon
  <2>3. Cardinality(B(e)) <= Cardinality(B(f)) BY <2>1, <2>2, <1>4, FS_Subset
  <2>4. Cardinality(B(f)) < oConf.PageSize BY <2>1, <1>2
  <2>5. Cardinality(B(e)) < oConf.PageSize BY <2>1, <2>3, <2>4, <1>4, <1>s
  <2>6. QED BY <2>5, <1>2
<1>6. ASSUME O!Window(p) # {} PROVE O!Answer(p) # {}
  <2> DEFINE x == O!Oldest(O!Window(p))
  <2>1. x \in O!Window(p) /\ \A y \in O!Window(p) : x <= y BY <1>1, <1>6, OldestExists
  <2> HIDE DEF x
  <2>2. x \in Nat /\ \A g \in O!Window(p) : g \in Nat BY <2>1, <1>1 DEF O!Events
  <2>7. \A g \in O!Window(p) : ~(g < x) BY <2>1, <2>2
  <2>3. B(x) = {} BY <2>7, Zenon
  <2>4. Cardinality(B(x)) = 0 BY <2>3, FS_EmptySet
  <2>5. QED BY <2>1, <2>4, <1>2, <1>s
<1>7. QED BY <1>1, <1>5, <1>6

\* A page of the window: what is due and not on it is behind it or after it.
LEMMA S1GetFromAPI == ASSUME S1Inv, NEW p \in Endpoints, O!GetFromAPI(p) PROVE S1Inv'
<1> USE S1Constants
<1>t. O!TypeOK /\ PublishedInOrder /\ EndpointInv(p) BY DEF S1Inv
<1>u. /\ UNCHANGED <<oConf, oNow, oCreated, oIsStop, oCloser, oCycles, oIsFirstRun, oIsDataFound, oLastCreatedAt, oStart, oUntil,
                     oAttempt, oBegun, oShipped>>
      /\ oPc[p] = "try" /\ ~oIsStop
  BY DEF O!GetFromAPI, O!loopVars
<1>k. ~oIsFirstRun[p] /\ Asking(p) BY <1>u, <1>t DEF EndpointInv, LoopInv, Asking
<1>y. /\ oNextPage[p] \in Nat /\ oStart[p] \in Int /\ oUntil[p] \in Int /\ oAsked[p] \in Int
      /\ \A e \in O!Events : oCreated[e] \in Int /\ oShipped[p][e] \in 0 .. 2
  BY <1>t, S1Types
<1>a. PICK A, W :
        /\ A = O!Answer(p) /\ W = O!Window(p)
        /\ oItems' = [oItems EXCEPT ![p] = A]
        /\ oNextPage' = [oNextPage EXCEPT ![p] = IF A = W THEN 0 ELSE O!Newest(A)]
        /\ oAsked' = [oAsked EXCEPT ![p] = IF A = W THEN oUntil[p] ELSE @]
        /\ oPc' = [oPc EXCEPT ![p] = "ship"]
  BY Zenon DEF O!GetFromAPI
<1>w. /\ A \subseteq W /\ W \subseteq O!Events /\ \A f \in A : \A e \in W : e < f => e \in A
      /\ W # {} => A # {}
  BY <1>t, <1>a, AnswerFacts
<1>m. \A e \in O!Events : e \in W <=> Published(e) /\ oStart[p] <= oCreated[e] /\ oCreated[e] <= oUntil[p] /\ e > oNextPage[p]
  BY <1>a DEF O!Window, Published
<1>b. A # W => O!Newest(A) \in A /\ \A f \in A : f <= O!Newest(A)
  <2> SUFFICES ASSUME A # W PROVE O!Newest(A) \in A /\ \A f \in A : f <= O!Newest(A) OBVIOUS
  <2>1. A # {} /\ A \subseteq O!Events BY <1>w
  <2>2. QED BY <2>1, NewestExists
<1>v. /\ oItems'[p] = A /\ oPc'[p] = "ship" /\ oNextPage'[p] = (IF A = W THEN 0 ELSE O!Newest(A))
      /\ oAsked'[p] = (IF A = W THEN oUntil[p] ELSE oAsked[p])
      /\ \A q \in Endpoints : q # p => /\ oItems'[q] = oItems[q] /\ oPc'[q] = oPc[q] /\ oNextPage'[q] = oNextPage[q]
                                       /\ oAsked'[q] = oAsked[q]
  BY <1>a, <1>t DEF O!TypeOK
<1>x. oNextPage'[p] > 0 => oNextPage'[p] \in A /\ \A f \in A : f <= oNextPage'[p] BY <1>b, <1>v
<1>1. O!TypeOK'
  <2>1. oPc' \in [Endpoints -> {"head", "wait", "pages", "try", "backoff", "ship", "ended"}] BY <1>t, <1>a DEF O!TypeOK
  <2>2. oItems' \in [Endpoints -> SUBSET O!Events]
    <3>1. A \in SUBSET O!Events /\ oItems \in [Endpoints -> SUBSET O!Events] BY <1>w, <1>t DEF O!TypeOK
    <3>2. QED BY <3>1, <1>a
  <2>3. oNextPage' \in [Endpoints -> 0 .. N]
    <3>1. oNextPage \in [Endpoints -> 0 .. N] BY <1>t DEF O!TypeOK
    <3>2. (IF A = W THEN 0 ELSE O!Newest(A)) \in 0 .. N
      <4>1. A # W => O!Newest(A) \in O!Events BY <1>b, <1>w, Zenon
      <4>2. 0 \in 0 .. N /\ \A e \in O!Events : e \in 0 .. N BY DEF O!Events
      <4>3. QED BY <4>1, <4>2, Zenon
    <3>3. QED BY <3>1, <3>2, <1>a
  <2>4. oAsked' \in [Endpoints -> O!None .. oNow]
    <3>1. oAsked \in [Endpoints -> O!None .. oNow] /\ oUntil[p] \in 0 .. oNow BY <1>t DEF O!TypeOK
    <3>2. oUntil[p] \in O!None .. oNow BY <3>1 DEF O!None
    <3>3. QED BY <3>1, <3>2, <1>a
  <2>5. O!Times' = O!Times /\ O!Starts' = O!Starts BY <1>u, S1Stays
  <2>6. QED BY <2>1, <2>2, <2>3, <2>4, <2>5, <1>t, <1>u DEF O!TypeOK
<1>2. PublishedInOrder' BY <1>t, <1>u DEF PublishedInOrder, Published
<1>3. ASSUME NEW q \in Endpoints, q # p PROVE EndpointInv(q)' BY <1>3, <1>u, <1>v, <1>a, <1>t, S1Other DEF S1Inv
<1>4. LoopInv(p)' BY <1>u, <1>k, <1>v DEF LoopInv
\* What is before the start, or not after the page before, is before everything on this one.
<1>f. ASSUME NEW e \in O!Events, Published(e), oCreated[e] < oStart[p] \/ e <= oNextPage[p] PROVE \A f \in A : e < f
  <2> TAKE f \in A
  <2>1. f \in O!Events /\ Published(f) /\ oStart[p] <= oCreated[f] /\ f > oNextPage[p] BY <1>w, <1>m
  <2>2. f < e => oCreated[f] <= oCreated[e] BY <2>1, <1>f, <1>t DEF PublishedInOrder
  <2>3. e \in Nat /\ f \in Nat BY <2>1 DEF O!Events
  <2>4. CASE e <= oNextPage[p] BY <2>1, <2>3, <2>4, <1>y
  <2>5. CASE oCreated[e] < oStart[p] BY <2>1, <2>2, <2>3, <2>5, <1>y
  <2>6. QED BY <2>4, <2>5, <1>f
<1>5. ASSUME Tame' PROVE BehindInv(p)'
  <2>0. BehindInv(p) BY <1>5, <1>u, <1>t, S1Stays DEF EndpointInv
  <2>1. ASSUME NEW e \in O!Events, oShipped[p][e] > 0
        PROVE /\ oShipped[p][e] = 1 /\ Published(e) /\ oCreated[e] <= oLastCreatedAt[p] /\ \A f \in A : e < f
              /\ oNextPage'[p] > 0 => e <= oNextPage'[p]
    <3>1. /\ oShipped[p][e] = 1 /\ Published(e) /\ oCreated[e] <= oLastCreatedAt[p]
          /\ oCreated[e] < oStart[p] \/ e <= oNextPage[p]
      BY <2>0, <2>1, <1>k DEF BehindInv
    <3>2. \A f \in A : e < f BY <3>1, <1>f
    <3>3. oNextPage'[p] > 0 => e < oNextPage'[p] BY <3>2, <1>x
    <3>4. oNextPage'[p] > 0 => oNextPage'[p] \in Nat BY <1>x, <1>w DEF O!Events
    <3>5. QED BY <3>1, <3>2, <3>3, <3>4
  <2>2. QED BY <2>1, <1>u, <1>v DEF BehindInv, Published, Asking
<1>6. PageInv(p)'
  <2>1. \A f \in A : Published(f) /\ oCreated[f] >= oStart[p] BY <1>w, <1>m, <1>y
  <2>2. QED BY <2>1, <1>x, <1>u, <1>v DEF PageInv, Published
<1>7. ASSUME Regular' PROVE KeptInv(p)' /\ CompleteInv(p)'
  <2>0. Regular BY <1>7, <1>u DEF Regular
  <2>1. KeptInv(p) /\ CompleteInv(p) BY <2>0, <1>t DEF EndpointInv
  <2>2. KeptInv(p)' BY <2>1, <1>u, <1>k DEF KeptInv, Published, Asking
  <2>3. CompleteInv(p)'
    <3> SUFFICES ASSUME NEW e \in O!Events, Due(p, e)
                 PROVE /\ oCreated[e] <= oLastCreatedAt[p] => oShipped[p][e] = 1
                       /\ \A f \in A : e < f => Taken(p, e)'
                       /\ oNextPage'[p] > 0 /\ (oCreated[e] < oStart[p] \/ e <= oNextPage'[p]) => Taken(p, e)'
                       /\ oCreated[e] < oAsked'[p] => Taken(p, e)'
      BY <1>u, <1>v DEF CompleteInv, Asking, Due, Published
    <3>1. oCreated[e] <= oLastCreatedAt[p] => oShipped[p][e] = 1 BY <2>1 DEF CompleteInv
    <3>2. oCreated[e] < oStart[p] \/ e <= oNextPage[p] => oShipped[p][e] = 1 BY <2>1, <1>k DEF CompleteInv
    <3>3. oShipped[p][e] = 1 \/ e \in A => Taken(p, e)' BY <1>u, <1>v DEF Taken
    <3>4. e \in W \/ oShipped[p][e] = 1 \/ oUntil[p] < oCreated[e]
      <4>1. Published(e) BY DEF Due
      <4>2. e \in Nat BY DEF O!Events
      <4>3. QED BY <4>1, <4>2, <3>2, <1>m, <1>y
    <3>5. ASSUME NEW f \in A, e < f PROVE Taken(p, e)'
      <4>1. f \in O!Events /\ Published(f) /\ oCreated[f] <= oUntil[p] BY <1>w, <1>m
      <4>2. oCreated[e] <= oCreated[f] BY <4>1, <3>5, <1>t DEF PublishedInOrder
      <4>3. ~(oUntil[p] < oCreated[e]) BY <4>1, <4>2, <1>y
      <4>4. CASE e \in W BY <4>4, <3>5, <3>3, <1>w
      <4>5. QED BY <4>3, <4>4, <3>3, <3>4
    <3>6. ASSUME oNextPage'[p] > 0, oCreated[e] < oStart[p] \/ e <= oNextPage'[p] PROVE Taken(p, e)'
      <4>1. CASE oCreated[e] < oStart[p] BY <4>1, <3>2, <3>3
      <4>2. CASE e <= oNextPage'[p]
        <5>1. oNextPage'[p] \in A /\ oNextPage'[p] \in Nat /\ e \in Nat BY <3>6, <1>x, <1>w DEF O!Events
        <5>2. e = oNextPage'[p] \/ e < oNextPage'[p] BY <5>1, <4>2
        <5>3. QED BY <5>1, <5>2, <3>3, <3>5
      <4>3. QED BY <4>1, <4>2, <3>6
    <3>7. ASSUME oCreated[e] < oAsked'[p] PROVE Taken(p, e)'
      <4>1. CASE A = W
        <5>1. ~(oUntil[p] < oCreated[e]) BY <4>1, <3>7, <1>v, <1>y
        <5>2. QED BY <5>1, <4>1, <3>3, <3>4
      <4>2. CASE A # W
        <5>1. oCreated[e] < oAsked[p] BY <4>2, <3>7, <1>v
        <5>2. Taken(p, e) BY <5>1, <2>1 DEF CompleteInv
        <5>3. QED BY <5>2, <1>u, <3>3 DEF Taken
      <4>3. QED BY <4>1, <4>2
    <3>8. QED BY <3>1, <3>5, <3>6, <3>7
  <2>4. QED BY <2>2, <2>3
<1>8. EndpointInv(p)' BY <1>4, <1>5, <1>6, <1>7 DEF EndpointInv
<1>9. QED BY <1>1, <1>2, <1>3, <1>8 DEF S1Inv

-----------------------------------------------------------------------------
\* Every step keeps the invariant.
LEMMA S1Step == S1Inv /\ [O!Next]_O!vars => S1Inv'
<1> SUFFICES ASSUME S1Inv, [O!Next]_O!vars PROVE S1Inv' OBVIOUS
<1>1. ASSUME NEW p \in Endpoints, O!Fetch(p) PROVE S1Inv'
  BY <1>1, S1Query, S1Moves, S1GetFromAPI, S1Ship, S1ShipFails DEF O!Fetch
<1>2. ASSUME NEW e \in O!Events, O!Publish(e) PROVE S1Inv' BY <1>2, S1Publish
<1>3. CASE O!Tick \/ O!CloseStop \/ O!CloseWait \/ O!Idle \/ UNCHANGED O!vars BY <1>3, S1Rest DEF O!Idle
<1>4. QED BY <1>1, <1>2, <1>3 DEF O!Next

-----------------------------------------------------------------------------
(***************************************************************************)
(* Each keeps its invariant while it runs, and while another runs.         *)
(***************************************************************************)
AllInv == SupInv /\ SyslogInv /\ LinesInv /\ S1Inv

\* Every step of the one that runs keeps the invariants of all.
LEMMA AllStep == AllInv /\ [ProcessesNext]_ProcessesVars => AllInv'
<1> SUFFICES ASSUME AllInv, [ProcessesNext]_ProcessesVars PROVE AllInv' OBVIOUS
<1>1. [Next]_vars BY DEF ProcessesNext, OfMain, OfSyslog, OfS1, ProcessesVars
<1>2. [Y!Next]_Y!vars
  <2>1. Y!Next \/ UNCHANGED syslogVars BY DEF ProcessesNext, OfMain, OfSyslog, OfS1, ProcessesVars
  <2>2. QED BY <2>1 DEF syslogVars, Y!vars, Y!netVars, Y!readVars
<1>3. [O!Next]_O!vars
  <2>1. O!Next \/ UNCHANGED s1Vars BY DEF ProcessesNext, OfMain, OfSyslog, OfS1, ProcessesVars
  <2>2. QED BY <2>1 DEF s1Vars, O!vars, O!loopVars, O!queryVars, O!historyVars
<1>4. SupInv' BY <1>1, SupStep DEF AllInv
<1>5. SyslogInv' BY <1>2, SyslogStep DEF AllInv
<1>6. LinesInv' BY <1>2, LinesStep DEF AllInv
<1>7. S1Inv' BY <1>3, S1Step DEF AllInv
<1>8. QED BY <1>4, <1>5, <1>6, <1>7 DEF AllInv

\* The invariants hold always.
LEMMA AllInvariant == ProcessesSafety => []AllInv
<1>1. ProcessesInit => AllInv BY SupInit, SyslogInit, LinesInit, S1Init DEF ProcessesInit, AllInv
<1>2. QED BY <1>1, AllStep, PTL DEF ProcessesSafety

\* Type correctness of the process, of syslog and of sentinelone: for any number of
\* configurations, updates, connections, endpoints, events and attempts.
THEOREM ProcessesTypeCorrect == ProcessesSafety => []ProcessesTypeOK
<1>1. AllInv => ProcessesTypeOK BY DEF AllInv, SupInv, SyslogInv, S1Inv, ProcessesTypeOK
<1>2. QED BY <1>1, AllInvariant, PTL

\* An update closes the adapter it replaces and sees it stop before it starts the next
\* one, which is of the same type if the configurations in the cloud are of one type, and
\* main never takes the replaced adapter for one that stopped by itself: for any number
\* of configurations and of updates, whatever fails, whenever a signal comes.
THEOREM UpdatesSafe == ProcessesSafety => []UpdatesAreSafe
<1>1. ASSUME SupInv PROVE OneAdapterPerConfig
  BY <1>1 DEF SupInv, RunInv, Versions, OneAdapterPerConfig
<1>2. ASSUME SupInv PROVE UpdateKeepsType
  BY <1>2 DEF SupInv, KindInv, Versions, UpdateKeepsType
<1>3. ASSUME SupInv PROVE UpdateIsNoExit
  BY <1>3 DEF SupInv, AloneInv
<1>4. SupInv => UpdatesAreSafe BY <1>1, <1>2, <1>3 DEF UpdatesAreSafe
<1>5. AllInv => UpdatesAreSafe BY <1>4 DEF AllInv
<1>6. QED BY <1>5, AllInvariant, PTL

\* When main is over after a signal or an adapter that stopped, it has closed every
\* adapter that no update replaced, exactly once, and no other was closed twice, unless
\* an update removed a client from the list during the loop that closes them.
THEOREM ExitComplete == ProcessesSafety => []ExitClosesAll
<1> USE SupConstants
<1>1. ASSUME SupInv, pc = "over", why \in {"signal", "stopped"}, ~conf.service, ~raced
      PROVE /\ \A x \in Clients : closes[x] < 2
            /\ \A s \in 1 .. Len(configs) : lastEtag[s] = 0 => closes[<<s, 0>>] = 1
  <2>1. \A x \in Clients : closes[x] < 2 BY <1>1 DEF SupInv, CloseInv
  <2>2. ASSUME NEW s \in 1 .. Len(configs), lastEtag[s] = 0 PROVE closes[<<s, 0>>] = 1
    <3>1. s \in Slots BY <1>1, SupTypes DEF Slots
    <3>2. HasRun(s) BY <1>1 DEF SupInv, MainInv
    <3>3. current[s] = 0 BY <3>1, <3>2, <2>2, <1>1 DEF SupInv, SlotInv
    <3>4. ~Pending(s) /\ updater[s] \in {"no", "sleep", "remove", "close", "wait"}
      <4>1. Pending(s) => lastEtag[s] > 0 BY <3>1, <1>1 DEF SupInv, SlotInv
      <4>2. ~Pending(s) BY <4>1, <2>2
      <4>3. QED BY <4>2, <3>1, <1>1 DEF SupInv, TypeOK
    <3>5. Fresh(s) BY <3>3, <3>4 DEF Fresh, Pending
    <3>6. PICK k \in 1 .. len : array[k] = <<s, 0>> BY <3>1, <3>5, <1>1 DEF SupInv, ListInv, InList
    <3>7. QED BY <3>6, <1>1 DEF SupInv, CloseInv
  <2>3. QED BY <2>1, <2>2
<1>2. SupInv => ExitClosesAll BY <1>1 DEF ExitClosesAll
<1>3. AllInv => ExitClosesAll BY <1>2 DEF AllInv
<1>4. QED BY <1>3, AllInvariant, PTL

\* syslog and stdin: when Close has begun, a reader reads at most once more, whatever the
\* senders send and however many connections there are.
THEOREM OneMoreRead == ProcessesSafety => []Y!OneReadAfterClose
<1>1. AllInv => Y!OneReadAfterClose BY DEF AllInv, SyslogInv, LastReadInv, Y!OneReadAfterClose
<1>2. QED BY <1>1, AllInvariant, PTL

\* syslog and stdin: what is shipped of a connection are its lines, in their order, without
\* the empty ones, however the reads cut the stream and whatever Close interrupts, as long
\* as no line is given up and no read has a single byte before a newline: for any lines.
THEOREM LinesShippedInOrder == ProcessesSafety => []LinesInOrder
<1>1. AllInv => Y!LinesInOrder
  <2> SUFFICES ASSUME AllInv PROVE Y!LinesInOrder OBVIOUS
  <2>1. Y!IsConf(yConf) /\ LinesInv BY DEF AllInv, SyslogInv, Y!TypeOK
  <2>2. QED BY <2>1, OrderByInv
<1>2. AllInv => Y!OneReadAfterClose BY DEF AllInv, SyslogInv, LastReadInv, Y!OneReadAfterClose
<1>3. AllInv => LinesInOrder BY <1>1, <1>2 DEF LinesInOrder
<1>4. QED BY <1>3, AllInvariant, PTL

\* sentinelone: no event is shipped twice, although pages are tried again after transient
\* errors and what a failed page left is asked for again by time, unless an event without
\* a time sets the next window back to a local time behind UTC; and an endpoint that waits
\* has shipped every event of the windows it has fetched to their end, if every event has
\* a time of its own.
THEOREM WindowsShipped == ProcessesSafety => []WindowsAreShipped
<1>1. ASSUME S1Inv, Tame, NEW p \in Endpoints, NEW e \in O!Events PROVE oShipped[p][e] < 2
  <2>1. oShipped[p][e] \in 0 .. 2 BY <1>1, S1Types DEF S1Inv
  <2>2. oShipped[p][e] > 0 => oShipped[p][e] = 1 BY <1>1 DEF S1Inv, EndpointInv, BehindInv
  <2>3. QED BY <2>1, <2>2
<1>2. S1Inv => O!ShippedOnce BY <1>1 DEF O!ShippedOnce, Tame
<1>3. ASSUME S1Inv, Regular, NEW p \in Endpoints, oPc[p] \in {"head", "wait"}, NEW e \in O!Events,
             oCreated[e] # O!None, oBegun[p] < oCreated[e], oCreated[e] < oAsked[p]
      PROVE oShipped[p][e] = 1
  <2>1. CompleteInv(p) BY <1>3 DEF S1Inv, EndpointInv
  <2>2. Taken(p, e) BY <2>1, <1>3 DEF CompleteInv, Due, Published
  <2>3. QED BY <2>2, <1>3 DEF Taken
<1>4. S1Inv => O!WindowsAreShipped BY <1>3 DEF O!WindowsAreShipped, Regular
<1>5. AllInv => WindowsAreShipped BY <1>2, <1>4 DEF AllInv, WindowsAreShipped
<1>6. QED BY <1>5, AllInvariant, PTL
=============================================================================
