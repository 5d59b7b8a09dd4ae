---------------------------- MODULE MCProcesses ----------------------------
(***************************************************************************)
(* Values for the constants of Processes.                                  *)
(***************************************************************************)
EXTENDS Processes

-----------------------------------------------------------------------------
(***************************************************************************)
(* The situations of the process.                                          *)
(***************************************************************************)
InCloud(type) == [Cloud |-> TRUE, SensorType |-> type]
Plain == [Cloud |-> FALSE, SensorType |-> "none"]

\* An update of one of three adapters that may stop; two updates that may fail; two
\* configurations of different types in the cloud; a service; a file in JSON; a file
\* that cannot be read.
MCSupervisorConfs ==
  LET base == [service |-> FALSE, format |-> "yaml", docs |-> <<Plain>>, Updates |-> 0, Fails |-> TRUE, Ends |-> TRUE]
  IN {[base EXCEPT !.docs = <<InCloud("a"), Plain, Plain>>, !.Updates = 1, !.Fails = FALSE],
      [base EXCEPT !.docs = <<InCloud("a"), Plain>>, !.Updates = 2],
      [base EXCEPT !.docs = <<InCloud("a"), InCloud("b")>>, !.Updates = 1, !.Fails = FALSE, !.Ends = FALSE],
      [base EXCEPT !.docs = <<Plain, Plain>>, !.service = TRUE],
      [base EXCEPT !.format = "json"],
      [base EXCEPT !.format = "neither"]}

\* The file is one JSON document.
MCOneJSON == {c \in MCSupervisorConfs : c.format = "json"}

-----------------------------------------------------------------------------
(***************************************************************************)
(* The situations of the adapters.                                         *)
(***************************************************************************)
\* Lines of two and no bytes and an unfinished one, over each kind of input, with
\* and without failures; two connections at once, each with a line of one byte.
SyslogBase ==
  [kind |-> "tcp", conns |-> {1}, lines |-> <<<<1, 1>>, <<>>, <<2, 2>>>>, rest |-> <<3>>, Fails |-> FALSE,
   Full |-> FALSE]
OneLine == [SyslogBase EXCEPT !.lines = <<<<1, 1>>>>, !.rest = <<>>]
MCSyslogConfs ==
  {SyslogBase,
   [SyslogBase EXCEPT !.kind = "stdin", !.Full = TRUE, !.Fails = TRUE],
   [SyslogBase EXCEPT !.kind = "udp"],
   [SyslogBase EXCEPT !.kind = "udp", !.Full = TRUE, !.Fails = TRUE],
   [OneLine EXCEPT !.conns = {1, 2}, !.lines = <<<<1>>>>],
   [OneLine EXCEPT !.Full = TRUE, !.Fails = TRUE]}

\* sentinelone: two events on two pages and three cycles; two cycles with events of one
\* time and one without a time; two endpoints.
S1Base ==
  [endpoints |-> {1}, events |-> 2, cycles |-> 3, PageSize |-> 1, Ties |-> FALSE, Missing |-> {}, Fails |-> TRUE,
   Zone |-> 0]
MCS1Confs ==
  {S1Base,
   [S1Base EXCEPT !.Ties = TRUE, !.Missing = {2}, !.cycles = 2, !.Zone = 1],
   [S1Base EXCEPT !.Ties = TRUE, !.Missing = {2}, !.cycles = 2, !.Zone = -1],
   [S1Base EXCEPT !.endpoints = {1, 2}, !.events = 1, !.cycles = 1]}
=============================================================================
