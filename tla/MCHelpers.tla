----------------------------- MODULE MCHelpers -----------------------------
(***************************************************************************)
(* The objects of utils/ the adapters are built from.  They share no       *)
(* state, so one of them is chosen in the initial state and the others     *)
(* stay as they were made: a deduper, an event, a stream tokenizer, or a   *)
(* pipeline whose it() may fail (MCPipeliner has the one that does not).   *)
(***************************************************************************)
EXTENDS Deduper, Sequences, FiniteSets

CONSTANTS
  Loopers, Sleepers, MaxCalls,
  Letters, Token, MaxSizes, MaxChunk, MaxFed,
  nParallel, MaxItems

VARIABLES
  which,
  v, waiters, filled, closed, timer, pc, calls, sleeper, late,
  MaxSize, currentData, fed, out, tooLarge, short,
  evDone, evReady, smGen, chGen, chReady, arr, cpc, proc, readyClosed,
  plc, fin, caller, rel, panicked, generated, delivered

E == INSTANCE Event
T == INSTANCE StreamTokenizer
P == INSTANCE Pipeliner WITH ItMayFail <- TRUE

ASSUME EventAssumption == MaxCalls \in Nat
ASSUME TokenizerAssumption == MaxSizes \subseteq Nat /\ {MaxChunk, MaxFed} \subseteq Nat
ASSUME PipelineAssumption == nParallel \in Nat \ {0} /\ MaxItems \in Nat

eventVars == <<v, waiters, filled, closed, timer, pc, calls, sleeper, late>>
tokenizerVars == <<MaxSize, currentData, fed, out, tooLarge, short>>
pipelineVars == <<evDone, evReady, smGen, chGen, chReady, arr, cpc, proc, readyClosed,
                  plc, fin, caller, rel, panicked, generated, delivered>>
MCvars == <<which, vars, eventVars, tokenizerVars, pipelineVars>>

MCInit ==
  /\ which \in {"deduper", "event", "tokenizer", "pipeline"}
  /\ Init /\ E!Init /\ T!Init /\ P!Init
  /\ MaxSize # 0 => which = "tokenizer"

DeduperStep ==
  which = "deduper" /\ Next /\ UNCHANGED <<which, eventVars, tokenizerVars, pipelineVars>>
EventStep ==
  which = "event" /\ E!Next /\ UNCHANGED <<which, vars, tokenizerVars, pipelineVars>>
TokenizerStep ==
  which = "tokenizer" /\ T!Next /\ UNCHANGED <<which, vars, eventVars, pipelineVars>>
PipelineStep ==
  which = "pipeline" /\ P!Next /\ UNCHANGED <<which, vars, eventVars, tokenizerVars>>

\* After an error of it() the process may panic (README, section 6) or wait for a
\* caller that does not come back.
PipelineStops == which = "pipeline" /\ evDone /\ UNCHANGED MCvars

MCNext == DeduperStep \/ EventStep \/ TokenizerStep \/ PipelineStep \/ PipelineStops

MCSafety == MCInit /\ [][MCNext]_MCvars

MCSpec ==
  /\ MCSafety
  /\ WF_vars(which = "deduper" /\ Rotator)
  /\ E!Fairness

-----------------------------------------------------------------------------
\* Type correctness of the helpers.
HelpersTypeOK == TypeOK /\ E!TypeOK /\ T!TypeOK

\* The event is safe to use from many goroutines: Set, which sends under the mutex,
\* neither blocks nor panics; the list of waiters neither forgets a pending WaitFor nor
\* leaks channels; and a loop on WaitFor begins at most one body after the flag is raised.
EventIsSafe == E!SetCannotBlock /\ E!WaitersAreTracked /\ E!AtMostOneLateBody

\* Set wakes every WaitFor and Wait, and with it Close ends the deduper's goroutine.
StopReachesEverybody == E!SetWakesEverybody /\ RotatorEnds

\* The messages are those of the whole stream, wherever the buffers are cut, as long as
\* no buffer holds a single byte before a token; with a size limit there is still one
\* message per token, within the limit.
CutsDoNotMatter == T!LosslessUnlessShort /\ T!LimitKeepsFraming

\* When it() fails, what the caller gets is an in-order prefix of what it() returned.
OnlyTruncates == P!OnlyTruncates
=============================================================================
