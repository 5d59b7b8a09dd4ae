------------------------------- MODULE Event -------------------------------
(***************************************************************************)
(* utils/event.go: the flag every adapter polls with                       *)
(*     for !doStop.WaitFor(d) { body }                                     *)
(* and the pipeline waits on with Wait().  Every method body runs under    *)
(* e.m and is one step; a WaitFor call also leaves behind a goroutine that *)
(* sleeps for d and then removes the call's channel from e.waiters.        *)
(***************************************************************************)
EXTENDS Integers, Sequences, FiniteSets

CONSTANTS
  Loopers,   \* goroutines that loop on WaitFor
  Sleepers,  \* goroutines that call Wait
  MaxCalls   \* bound: WaitFor calls per looper

VARIABLES
  v,        \* the flag
  waiters,  \* e.waiters, a slice of channels
  filled,   \* channels whose one-element buffer holds a value
  closed,   \* channels that Set has closed
  timer,    \* per channel: "none", "sleeping", "fired" (timeout is readable), "gone"
  pc,       \* per looper: "top", "select", "body", "stopped"
  calls,    \* per looper: number of WaitFor calls made
  sleeper,  \* per sleeper: "out", "blocked" on the condition, "notified"
  late      \* history: bodies a looper has begun since the flag was last raised

vars == <<v, waiters, filled, closed, timer, pc, calls, sleeper, late>>

\* Every WaitFor call makes its own channel; it is named by its looper and number.
Channels == Loopers \X (1 .. MaxCalls)
Current(p) == <<p, calls[p]>>

Init ==
  /\ v = FALSE
  /\ waiters = <<>>
  /\ filled = {} /\ closed = {}
  /\ timer = [w \in Channels |-> "none"]
  /\ pc = [p \in Loopers |-> "top"]
  /\ calls = [p \in Loopers |-> 0]
  /\ sleeper = [q \in Sleepers |-> "out"]
  /\ late = [p \in Loopers |-> 0]

-----------------------------------------------------------------------------
Listed == {waiters[i] : i \in DOMAIN waiters}

\* Mutant: Set broadcasts to Wait but forgets the channels of WaitFor.
SetOnlyBroadcasts ==
  /\ v' = TRUE
  /\ late' = IF v THEN late ELSE [p \in Loopers |-> 0]
  /\ sleeper' = [q \in Sleepers |-> IF sleeper[q] = "blocked" THEN "notified" ELSE sleeper[q]]
  /\ UNCHANGED <<waiters, filled, closed, timer, pc, calls>>

\* A send blocks on a full buffer and panics on a closed channel; that neither
\* can happen here is the property SetCannotBlock.
Set ==
  /\ v' = TRUE
  /\ late' = IF v THEN late ELSE [p \in Loopers |-> 0]
  /\ sleeper' = [q \in Sleepers |-> IF sleeper[q] = "blocked" THEN "notified" ELSE sleeper[q]]
  /\ filled' = filled \union Listed
  /\ closed' = closed \union Listed
  /\ waiters' = <<>>
  /\ UNCHANGED <<timer, pc, calls>>

Clear ==
  /\ v' = FALSE
  /\ UNCHANGED <<waiters, filled, closed, timer, pc, calls, sleeper, late>>

-----------------------------------------------------------------------------
\* Wait(): cond.Wait in a loop.  A notified goroutine rechecks the flag.
WaitEnter(q) ==
  /\ sleeper[q] = "out"
  /\ ~v                       \* otherwise Wait returns at once
  /\ sleeper' = [sleeper EXCEPT ![q] = "blocked"]
  /\ UNCHANGED <<v, waiters, filled, closed, timer, pc, calls, late>>

WaitRecheck(q) ==
  /\ sleeper[q] = "notified"
  /\ sleeper' = [sleeper EXCEPT ![q] = IF v THEN "out" ELSE "blocked"]
  /\ UNCHANGED <<v, waiters, filled, closed, timer, pc, calls, late>>

-----------------------------------------------------------------------------
(***************************************************************************)
(* WaitFor, called at the top of the looper's loop.                        *)
(***************************************************************************)
WaitForEnter(p) ==
  /\ pc[p] = "top"
  /\ calls[p] < MaxCalls
  /\ LET w == <<p, calls[p] + 1>> IN
       /\ calls' = [calls EXCEPT ![p] = @ + 1]
       /\ IF v THEN /\ pc' = [pc EXCEPT ![p] = "stopped"]
                    /\ UNCHANGED <<waiters, timer>>
               ELSE /\ waiters' = Append(waiters, w)
                    /\ timer' = [timer EXCEPT ![w] = "sleeping"]
                    /\ pc' = [pc EXCEPT ![p] = "select"]
  /\ UNCHANGED <<v, filled, closed, sleeper, late>>

TimerFires(w) ==
  /\ timer[w] = "sleeping"
  /\ timer' = [timer EXCEPT ![w] = "fired"]
  /\ UNCHANGED <<v, waiters, filled, closed, pc, calls, sleeper, late>>

\* Mutant: the swap with the last element is forgotten.
RemoveWaiterNoSwap(s, i) == SubSeq(s, 1, Len(s) - 1)

removeWaiter(s, i) ==
  SubSeq([s EXCEPT ![Len(s)] = s[i], ![i] = s[Len(s)]], 1, Len(s) - 1)

TimerRemoves(w) ==
  /\ timer[w] = "fired"
  /\ timer' = [timer EXCEPT ![w] = "gone"]
  /\ waiters' = IF w \in Listed
                THEN removeWaiter(waiters, CHOOSE i \in DOMAIN waiters : waiters[i] = w)
                ELSE waiters
  /\ UNCHANGED <<v, filled, closed, pc, calls, sleeper, late>>

\* The select, which may pick either side when both can be read.
WaitForTrue(p) ==
  /\ pc[p] = "select"
  /\ Current(p) \in filled
  /\ filled' = filled \ {Current(p)}
  /\ pc' = [pc EXCEPT ![p] = "stopped"]
  /\ UNCHANGED <<v, waiters, closed, timer, calls, sleeper, late>>

WaitForFalse(p) ==
  /\ pc[p] = "select"
  /\ timer[Current(p)] \in {"fired", "gone"}
  /\ pc' = [pc EXCEPT ![p] = "body"]
  /\ late' = [late EXCEPT ![p] = IF v THEN @ + 1 ELSE @]
  /\ UNCHANGED <<v, waiters, filled, closed, timer, calls, sleeper>>

BodyEnds(p) ==
  /\ pc[p] = "body"
  /\ pc' = [pc EXCEPT ![p] = "top"]
  /\ UNCHANGED <<v, waiters, filled, closed, timer, calls, sleeper, late>>

Looper(p) == WaitForEnter(p) \/ WaitForTrue(p) \/ WaitForFalse(p) \/ BodyEnds(p)
Sleeper(q) == WaitEnter(q) \/ WaitRecheck(q)

Next ==
  \/ Set \/ Clear
  \/ \E p \in Loopers : Looper(p)
  \/ \E q \in Sleepers : Sleeper(q)
  \/ \E w \in Channels : TimerFires(w) \/ TimerRemoves(w)

\* Goroutines are scheduled; how long a WaitFor may take is up to its caller,
\* so no timer is assumed to fire.
Fairness ==
  /\ \A p \in Loopers : WF_vars(WaitForTrue(p) \/ WaitForFalse(p))
  /\ \A q \in Sleepers : WF_vars(WaitRecheck(q))

Spec == Init /\ [][Next]_vars
FairSpec == Spec /\ Fairness

-----------------------------------------------------------------------------
(***************************************************************************)
(* Properties.                                                             *)
(***************************************************************************)

\* Type correctness of the event and of the goroutines using it.
TypeOK ==
  /\ v \in BOOLEAN
  /\ waiters \in Seq(Channels)
  /\ closed \subseteq Channels
  /\ filled \subseteq closed   \* only Set sends, and it closes what it sent to
  /\ timer \in [Channels -> {"none", "sleeping", "fired", "gone"}]
  /\ pc \in [Loopers -> {"top", "select", "body", "stopped"}]
  /\ calls \in [Loopers -> 0 .. MaxCalls]
  /\ sleeper \in [Sleepers -> {"out", "blocked", "notified"}]
  /\ late \in [Loopers -> Nat]

\* Set holds e.m while it sends: no listed channel is full or closed and none is
\* listed twice, so Set neither blocks everybody else nor panics, also when calls
\* time out, are abandoned and are re-entered around it.
SetCannotBlock ==
  /\ Listed \cap (filled \union closed) = {}
  /\ Cardinality(Listed) = Len(waiters)

\* The list of waiters neither forgets nor leaks: a WaitFor whose timer has not run
\* is listed, so that the next Set reaches it, or already holds the value that wakes
\* it; and every listed channel has a goroutine that will remove it.
WaitersAreTracked ==
  /\ \A p \in Loopers :
       pc[p] = "select" /\ timer[Current(p)] = "sleeping" =>
         Current(p) \in Listed \union filled
  /\ \A w \in Listed : timer[w] \in {"sleeping", "fired"}

\* "for !doStop.WaitFor(d)" stops in time: a looper begins at most one body after
\* the flag is raised, namely when its timeout and Set race in the select.
AtMostOneLateBody == \A p \in Loopers : late[p] <= 1

\* Set wakes every pending WaitFor without the help of its timer, even if the flag
\* is cleared before the woken goroutine runs; once the flag is raised for good,
\* every Wait() returns.
SetWakesEverybody ==
  /\ \A p \in Loopers : (v /\ pc[p] = "select") ~> (pc[p] # "select")
  /\ \A q \in Sleepers : <>[]v => []<>(sleeper[q] = "out")
=============================================================================
