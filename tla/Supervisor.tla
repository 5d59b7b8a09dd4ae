----------------------------- MODULE Supervisor -----------------------------
(***************************************************************************)
(* The process around the adapters: main() of the general container, and   *)
(* Execute() when it runs as a Windows service.  It starts an adapter per  *)
(* configuration, a goroutine that waits for the adapter to stop, and, for *)
(* a configuration kept in the cloud, a goroutine that replaces the        *)
(* adapter when the configuration changes.  The adapters are known by      *)
(* their Close() and by chRunning, which is closed when they stop.         *)
(***************************************************************************)
EXTENDS Integers, Sequences

CONSTANTS
  MaxSlots,     \* configurations to run, at most
  MaxUpdates,   \* new versions of a configuration, at most
  Confs         \* the situations: see Conf

Slots == 1 .. MaxSlots
Clients == Slots \X (0 .. MaxUpdates)   \* the adapter of a slot and a version
None == -1

\* service: Execute instead of main.  format: how the file is written.  docs: its
\* documents.  Updates: new versions of a configuration.  Fails: calls may fail.  Ends:
\* adapters may stop by themselves.
Doc == [Cloud : BOOLEAN, SensorType : STRING]
IsConf(c) ==
  /\ DOMAIN c = {"service", "format", "docs", "Updates", "Fails", "Ends"}
  /\ c.format \in {"yaml", "json", "neither"} /\ {c.service, c.Fails, c.Ends} \subseteq BOOLEAN
  /\ c.docs \in Seq(Doc) /\ c.Updates \in 0 .. MaxUpdates
  /\ c.format = "json" => Len(c.docs) <= 1

\* parseConfigsFromFile lets both decoders read the whole file, and a JSON document
\* is a YAML document.
DecodedJSON(c) == IF c.format = "json" THEN c.docs ELSE <<>>
DecodedYAML(c) == IF c.format \in {"json", "yaml"} THEN c.docs ELSE <<>>
parseConfigs(c) == DecodedJSON(c) \o DecodedYAML(c)

ASSUME SupervisorAssumption ==
  /\ MaxSlots \in Nat /\ MaxUpdates \in Nat
  /\ \A c \in Confs : IsConf(c) /\ Len(parseConfigs(c)) <= MaxSlots

VARIABLES
  conf,
  configs,     \* configsToRun
  pc,          \* of main or Execute; "over" when the process has ended
  pos,         \* the configuration to start, then the client to close
  range,       \* the length of clients when the loop that closes them began
  array, len,  \* clients: its memory and its length
  method,      \* shared by all configurations
  current,     \* per slot: the version of the variables client and chRunning, None for nil
  monitor,     \* per slot: the goroutine that waits for chRunning
  updater,     \* per slot: the goroutine of WatchForChanges
  version, lastEtag,  \* per slot: the version in the cloud and the one last seen
  ctl, ctlPos, \* the goroutine of Execute that handles the control requests
  run,         \* per client: "no", "running", "closing" or "stopped"
  kind,        \* history, per client: the adapter type it was started as
  closes,      \* history, per client: calls of Close, up to 2
  alone,       \* history: the clients that stopped by themselves
  why,         \* history: what ended the process
  raced        \* history: a client was removed from the list while main was closing

mainVars == <<pc, pos, range>>
listVars == <<array, len>>
slotVars == <<method, current, lastEtag>>
goVars == <<monitor, updater, ctl, ctlPos>>
clientVars == <<run, kind, closes, alone>>
vars == <<conf, configs, mainVars, listVars, slotVars, goVars, version, clientVars, why, raced>>

\* A file that neither decoder accepts, and one without documents, end the process.
Init ==
  /\ conf \in Confs
  /\ configs = parseConfigs(conf)
  /\ pc = IF configs = <<>> THEN "over" ELSE "start"
  /\ why = IF configs = <<>> THEN "config" ELSE "no"
  /\ pos = 1 /\ range = 0
  /\ array = [s \in Slots |-> <<s, 0>>] /\ len = 0
  /\ method = "argument" /\ current = [s \in Slots |-> None]
  /\ version = [s \in Slots |-> 0] /\ lastEtag = [s \in Slots |-> 0]
  /\ monitor = [s \in Slots |-> "no"] /\ updater = [s \in Slots |-> "no"]
  /\ ctl = "idle" /\ ctlPos = 1
  /\ run = [x \in Clients |-> "no"] /\ kind = [x \in Clients |-> "none"]
  /\ closes = [x \in Clients |-> 0] /\ alone = {} /\ raced = FALSE

-----------------------------------------------------------------------------
(***************************************************************************)
(* The adapters.                                                           *)
(***************************************************************************)
runAdapter(x, m) ==
  /\ run' = [run EXCEPT ![x] = "running"]
  /\ kind' = [kind EXCEPT ![x] = m]
  /\ UNCHANGED <<closes, alone>>

CallClose(x) ==
  /\ closes' = [closes EXCEPT ![x] = IF @ = 2 THEN 2 ELSE @ + 1]
  /\ run' = [run EXCEPT ![x] = IF @ = "running" THEN "closing" ELSE @]
  /\ UNCHANGED <<kind, alone>>

AdapterStops(x) ==
  /\ pc # "over" /\ run[x] = "closing"
  /\ run' = [run EXCEPT ![x] = "stopped"]
  /\ UNCHANGED <<conf, configs, mainVars, listVars, slotVars, goVars, version, kind, closes, alone, why, raced>>

AdapterEnds(x) ==
  /\ pc # "over" /\ conf.Ends /\ run[x] = "running"
  /\ run' = [run EXCEPT ![x] = "stopped"]
  /\ alone' = alone \union {x}
  /\ UNCHANGED <<conf, configs, mainVars, listVars, slotVars, goVars, version, kind, closes, why, raced>>

-----------------------------------------------------------------------------
(***************************************************************************)
(* main and Execute start the adapters.  os.Exit ends the process with     *)
(* those that were started before.                                         *)
(***************************************************************************)
Over(reason) == pc' = "over" /\ why' = reason

\* A configuration in the cloud also brings the adapter type.
StartAdapter ==
  /\ pc = "start" /\ pos <= Len(configs)
  /\ LET cloud == configs[pos].Cloud /\ ~conf.service
         m == IF cloud THEN configs[pos].SensorType ELSE method
     IN /\ method' = m
        /\ runAdapter(<<pos, 0>>, m)
        /\ updater' = [updater EXCEPT ![pos] = IF cloud THEN "sleep" ELSE "no"]
  /\ current' = [current EXCEPT ![pos] = 0]
  /\ array' = [array EXCEPT ![len + 1] = <<pos, 0>>] /\ len' = len + 1
  /\ monitor' = [monitor EXCEPT ![pos] = "watch"]
  /\ pos' = pos + 1
  /\ UNCHANGED <<conf, configs, pc, range, lastEtag, version, ctl, ctlPos, why, raced>>

\* NewConfUpdateClient, UnMarshalToStruct or runAdapter fails.
StartFails ==
  /\ pc = "start" /\ pos <= Len(configs) /\ conf.Fails
  /\ Over("start")
  /\ UNCHANGED <<conf, configs, pos, range, listVars, slotVars, goVars, version, clientVars, raced>>

Started ==
  /\ pc = "start" /\ pos > Len(configs)
  /\ pc' = "select"
  /\ UNCHANGED <<conf, configs, pos, range, listVars, slotVars, goVars, version, clientVars, why, raced>>

\* startHealthChecks.
HealthFails ==
  /\ pc = "start" /\ pos > Len(configs) /\ conf.Fails /\ ~conf.service
  /\ Over("health")
  /\ UNCHANGED <<conf, configs, pos, range, listVars, slotVars, goVars, version, clientVars, raced>>

-----------------------------------------------------------------------------
(***************************************************************************)
(* The goroutine that waits for an adapter to stop.  What it waits for is  *)
(* the chRunning of the first adapter of the slot: no update comes before  *)
(* a minute has passed.                                                    *)
(***************************************************************************)
InList(x) == \E k \in 1 .. len : array[k] = x

\* Mutant: the test of the list is the wrong way round.
IsNotFound(s) == IF conf.service \/ InList(<<s, current[s]>>) THEN "done" ELSE "send"

\* What it does when chRunning is closed: a client that is no longer in the list is
\* being replaced.  Execute has no list.
IsFound(s) == IF conf.service \/ InList(<<s, current[s]>>) THEN "send" ELSE "done"

MonitorWakes(s) ==
  /\ pc # "over" /\ monitor[s] = "watch" /\ run[<<s, 0>>] = "stopped"
  /\ monitor' = [monitor EXCEPT ![s] = IsFound(s)]
  /\ UNCHANGED <<conf, configs, mainVars, listVars, slotVars, updater, ctl, ctlPos, version, clientVars, why, raced>>

-----------------------------------------------------------------------------
(***************************************************************************)
(* A configuration changes in the cloud.                                   *)
(***************************************************************************)
NewVersion(s) ==
  /\ pc # "over" /\ updater[s] # "no" /\ version[s] < conf.Updates
  /\ version' = [version EXCEPT ![s] = @ + 1]
  /\ UNCHANGED <<conf, configs, mainVars, listVars, slotVars, goVars, clientVars, why, raced>>

\* Mutant: every answer counts as a new version.
GetNextVersion(s) ==
  /\ pc # "over" /\ updater[s] = "sleep"
  /\ lastEtag' = [lastEtag EXCEPT ![s] = @ + 1]
  /\ updater' = [updater EXCEPT ![s] = "remove"]
  /\ UNCHANGED <<conf, configs, mainVars, listVars, method, current, monitor, ctl, ctlPos, version, clientVars, why,
                 raced>>

\* A request that fails, or that finds the record unchanged, changes nothing.
GetPublicByGUID(s) ==
  /\ pc # "over" /\ updater[s] = "sleep" /\ version[s] # lastEtag[s]
  /\ lastEtag' = [lastEtag EXCEPT ![s] = version[s]]
  /\ updater' = [updater EXCEPT ![s] = "remove"]
  /\ UNCHANGED <<conf, configs, mainVars, listVars, method, current, monitor, ctl, ctlPos, version, clientVars, why,
                 raced>>

\* append(clients[:i], clients[i+1:]...) moves the rest of the list in place.
Without(x) ==
  [k \in Slots |-> IF k < len /\ (\E j \in 1 .. k : array[j] = x) THEN array[k + 1] ELSE array[k]]

RemoveClient(s) ==
  /\ pc # "over" /\ updater[s] = "remove"
  /\ updater' = [updater EXCEPT ![s] = "close"]
  /\ IF InList(<<s, current[s]>>)
     THEN /\ array' = Without(<<s, current[s]>>) /\ len' = len - 1
          /\ raced' = (raced \/ pc \in {"close", "closing"})
     ELSE UNCHANGED <<listVars, raced>>
  /\ UNCHANGED <<conf, configs, mainVars, slotVars, monitor, ctl, ctlPos, version, clientVars, why>>

CloseClient(s) ==
  /\ pc # "over" /\ updater[s] = "close" /\ current[s] # None
  /\ CallClose(<<s, current[s]>>)
  /\ updater' = [updater EXCEPT ![s] = "wait"]
  /\ UNCHANGED <<conf, configs, mainVars, listVars, slotVars, monitor, ctl, ctlPos, version, why, raced>>

\* client is nil: the restart before this one failed.
CloseNil(s) ==
  /\ pc # "over" /\ updater[s] = "close" /\ current[s] = None
  /\ Over("panic")
  /\ UNCHANGED <<conf, configs, pos, range, listVars, slotVars, goVars, version, clientVars, raced>>

\* Mutant: the new adapter does not wait for the previous one.
NoWait(s) == TRUE

\* <-chRunning
PreviousStopped(s) == run[<<s, current[s]>>] = "stopped"

StartNew(s) ==
  /\ pc # "over" /\ updater[s] = "wait" /\ PreviousStopped(s)
  /\ runAdapter(<<s, lastEtag[s]>>, method)
  /\ current' = [current EXCEPT ![s] = lastEtag[s]]
  /\ updater' = [updater EXCEPT ![s] = "sleep"]
  /\ UNCHANGED <<conf, configs, mainVars, listVars, method, lastEtag, monitor, ctl, ctlPos, version, why, raced>>

\* The error of runAdapter is dropped.
StartNewFails(s) ==
  /\ pc # "over" /\ updater[s] = "wait" /\ PreviousStopped(s) /\ conf.Fails
  /\ current' = [current EXCEPT ![s] = None]
  /\ updater' = [updater EXCEPT ![s] = "sleep"]
  /\ UNCHANGED <<conf, configs, mainVars, listVars, method, lastEtag, monitor, ctl, ctlPos, version, clientVars, why,
                 raced>>

Updater(s) ==
  GetPublicByGUID(s) \/ RemoveClient(s) \/ CloseClient(s) \/ CloseNil(s) \/ StartNew(s) \/ StartNewFails(s)

-----------------------------------------------------------------------------
(***************************************************************************)
(* The end of main: a signal, or an adapter of the list has stopped.  The  *)
(* loop over clients takes its length once, and holds no lock.             *)
(***************************************************************************)
Signal ==
  /\ pc = "select" /\ ~conf.service
  /\ pc' = "close" /\ pos' = 1 /\ range' = len /\ why' = "signal"
  /\ UNCHANGED <<conf, configs, listVars, slotVars, goVars, version, clientVars, raced>>

ReceiveRunnings(s) ==
  /\ pc = "select" /\ ~conf.service /\ monitor[s] = "send"
  /\ monitor' = [monitor EXCEPT ![s] = "done"]
  /\ pc' = "close" /\ pos' = 1 /\ range' = len /\ why' = "stopped"
  /\ UNCHANGED <<conf, configs, listVars, slotVars, updater, ctl, ctlPos, version, clientVars, raced>>

CloseNext ==
  /\ pc = "close" /\ pos <= range
  /\ CallClose(array[pos])
  /\ pc' = "closing"
  /\ UNCHANGED <<conf, configs, pos, range, listVars, slotVars, goVars, version, why, raced>>

\* Most adapters return from Close when they have stopped, some before.
CloseReturns ==
  /\ pc = "closing"
  /\ pc' = "close" /\ pos' = pos + 1
  /\ UNCHANGED <<conf, configs, range, listVars, slotVars, goVars, version, clientVars, why, raced>>

CloseFails ==
  /\ pc = "closing" /\ conf.Fails
  /\ Over("close")
  /\ UNCHANGED <<conf, configs, pos, range, listVars, slotVars, goVars, version, clientVars, raced>>

\* Mutant: the last client is left out.
ExitEarly ==
  /\ pc = "close" /\ pos >= range
  /\ pc' = "over"
  /\ UNCHANGED <<conf, configs, pos, range, listVars, slotVars, goVars, version, clientVars, why, raced>>

Exit ==
  /\ pc = "close" /\ pos > range
  /\ pc' = "over"
  /\ UNCHANGED <<conf, configs, pos, range, listVars, slotVars, goVars, version, clientVars, why, raced>>

-----------------------------------------------------------------------------
(***************************************************************************)
(* The Windows service: its goroutine for control requests closes all      *)
(* clients, and the first adapter that has stopped ends Execute.           *)
(***************************************************************************)
ControlStop ==
  /\ conf.service /\ pc # "over" /\ pc = "select" /\ ctl = "idle" /\ ctlPos = 1
  /\ ctl' = "close"
  /\ UNCHANGED <<conf, configs, mainVars, listVars, slotVars, monitor, updater, ctlPos, version, clientVars, why, raced>>

ControlClose ==
  /\ pc # "over" /\ ctl = "close" /\ ctlPos <= len
  /\ CallClose(array[ctlPos])
  /\ ctlPos' = ctlPos + 1
  /\ UNCHANGED <<conf, configs, mainVars, listVars, slotVars, monitor, updater, ctl, version, why, raced>>

ServiceStopped(s) ==
  /\ conf.service /\ pc = "select" /\ monitor[s] = "send"
  /\ monitor' = [monitor EXCEPT ![s] = "done"]
  /\ Over("stopped")
  /\ UNCHANGED <<conf, configs, pos, range, listVars, slotVars, updater, ctl, ctlPos, version, clientVars, raced>>

-----------------------------------------------------------------------------
Main == StartAdapter \/ Started \/ CloseNext \/ CloseReturns \/ Exit \/ (\E s \in Slots : ReceiveRunnings(s))
Service == ControlClose \/ (\E s \in Slots : ServiceStopped(s))

Gone == pc = "over" /\ UNCHANGED vars

Next ==
  \/ Main \/ Service \/ StartFails \/ HealthFails \/ Signal \/ CloseFails \/ ControlStop \/ Gone
  \/ \E s \in Slots : MonitorWakes(s) \/ NewVersion(s) \/ Updater(s)
  \/ \E x \in Clients : AdapterStops(x) \/ AdapterEnds(x)

Goroutines ==
  \/ Main \/ Service
  \/ \E s \in Slots : MonitorWakes(s) \/ Updater(s)
  \/ \E x \in Clients : AdapterStops(x)

\* The goroutines run, and adapters that are closed stop.  Nobody has to send a signal,
\* to change a configuration or to fail.  The versions are bounded and every behaviour
\* comes to rest, so that one condition says that no goroutine is left behind.
Fairness == WF_vars(Goroutines)

Spec == Init /\ [][Next]_vars
FairSpec == Spec /\ Fairness

-----------------------------------------------------------------------------
\* Type correctness.
TypeOK ==
  /\ conf \in Confs /\ Len(configs) <= MaxSlots
  /\ pc \in {"start", "select", "close", "closing", "over"}
  /\ pos \in 1 .. MaxSlots + 1 /\ range \in 0 .. MaxSlots
  /\ array \in [Slots -> Clients] /\ len \in 0 .. MaxSlots
  /\ current \in [Slots -> None .. MaxUpdates]
  /\ monitor \in [Slots -> {"no", "watch", "send", "done"}]
  /\ updater \in [Slots -> {"no", "sleep", "remove", "close", "wait"}]
  /\ {version, lastEtag} \subseteq [Slots -> 0 .. MaxUpdates] /\ \A s \in Slots : lastEtag[s] <= version[s]
  /\ ctl \in {"idle", "close"} /\ ctlPos \in 1 .. MaxSlots + 1
  /\ run \in [Clients -> {"no", "running", "closing", "stopped"}]
  /\ closes \in [Clients -> 0 .. 2] /\ alone \subseteq Clients /\ raced \in BOOLEAN
  /\ why \in {"no", "config", "start", "health", "panic", "signal", "stopped", "close"}

\* The adapters of one configuration never run at the same time: an update has closed
\* the previous one and seen it stop before it starts the next.
OneAdapterPerConfig ==
  \A s \in Slots : \A g, h \in 0 .. MaxUpdates :
    {run[<<s, g>>], run[<<s, h>>]} \subseteq {"running", "closing"} => g = h

\* Replacing an adapter never ends the process: main leaves its select because an
\* adapter stopped only when one stopped by itself.
UpdateIsNoExit == why = "stopped" /\ ~conf.service => \E s \in Slots : <<s, 0>> \in alone

\* When main is over, every adapter that no update replaced was closed, exactly once,
\* and no other was closed twice: unless a client was removed from the list during the
\* loop that closes them.
ExitClosesAll ==
  pc = "over" /\ why \in {"signal", "stopped"} /\ ~conf.service /\ ~raced =>
    /\ \A x \in Clients : closes[x] < 2
    /\ \A s \in 1 .. Len(configs) : lastEtag[s] = 0 => closes[<<s, 0>>] = 1

\* Adapters that stopped by themselves, and that no update is replacing.
Lost == {s \in Slots : <<s, 0>> \in alone /\ lastEtag[s] = 0}
Ending == pc # "start" /\ (Lost # {} \/ ctl = "close")

\* An adapter that stops by itself ends the process, unless an update of it has begun;
\* a service ends when it is asked to.
StopEndsProcess == Ending ~> (pc = "over" \/ ~Ending)

\* Every document of the file is run once: there are no more adapters than documents.
OneRunPerDocument ==
  conf.format # "neither" => {s \in Slots : run[<<s, 0>>] # "no"} \subseteq 1 .. Len(conf.docs)

\* The configurations kept in the cloud are all of one type.
OneType ==
  \A s, t \in 1 .. Len(configs) :
    configs[s].Cloud /\ configs[t].Cloud => configs[s].SensorType = configs[t].SensorType

\* An update starts an adapter of the same type again, if there is only one: all
\* configurations share the variable method.  Execute starts what its argument says.
UpdateKeepsType ==
  \A s \in Slots : \A g \in 0 .. MaxUpdates :
    ~conf.service /\ OneType /\ s <= Len(configs) /\ configs[s].Cloud /\ run[<<s, g>>] # "no" =>
      kind[<<s, g>>] = configs[s].SensorType

\* Updates are safe: the previous adapter has stopped before the next one starts, which
\* is of the same type, and replacing it is not taken for an adapter that has stopped.
UpdatesAreSafe == OneAdapterPerConfig /\ UpdateKeepsType /\ UpdateIsNoExit
=============================================================================
