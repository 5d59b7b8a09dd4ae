------------------------------ MODULE MCPollers ------------------------------
(***************************************************************************)
(* Values for the constants of PollingAdapters.                            *)
(***************************************************************************)
EXTENDS PollingAdapters

\* The window pollers.  defender and ms_graph are what entraid is, so that one stands for
\* the three.  Pages hold two events or all; proofpoint_tap has no pages.  A situation
\* without failures, whose cycles take no time, or in which no events are tied is there
\* for the adapters of which something is only claimed then; the others contain it.
\* entraid also runs to the west and to the east of UTC.
MCConfs ==
  {c \in [adapter : Adapters \ {"defender", "ms_graph"}, PageSize : {2, 4}, Fails : {0, 1}, MaxBusy : {0, 1},
          Ties : BOOLEAN, Zone : {-1, 0, 2}] :
     /\ c.Zone # 0 => c.adapter = "entraid" /\ c.Ties
     /\ c.Fails = 0 => c.adapter \in {"pandadoc", "zendesk", "mimecast", "sublime", "entraid", "bitwarden"}
     /\ c.MaxBusy = 0 => c.adapter \in {"pandadoc", "zendesk", "mimecast", "trendmicro"}
     /\ c.adapter \in {"pandadoc", "zendesk", "mimecast"} => (c.MaxBusy = 0 <=> c.Fails = 0)
     /\ ~c.Ties => c.adapter \in {"sublime", "entraid"}
     /\ c.adapter = "proofpoint_tap" => c.PageSize = 4}

\* The adapters of CursorPollers and their records.
K == INSTANCE CursorPollers WITH MaxTime <- 0, Confs <- {}

\* The cursor pollers, in the same way; sophos, if has_more is a string, is what itglue
\* is.  Pages hold one event or all, and where it matters the newest event comes first.
MCCursorConfs ==
  {c \in [adapter : K!Adapters \ {"sophos"}, kind : {K!Kind[a] : a \in K!Adapters}, PageSize : {1, 4},
          Fails : {0, 1}, MaxBusy : {0, 1}, Ties : BOOLEAN, Descending : BOOLEAN] :
     /\ c.kind = K!Kind[c.adapter]
     /\ c.Fails = 0 => c.adapter \in {"itglue", "box"}
     /\ c.MaxBusy = 0 => c.adapter \in {"itglue", "box"}
     /\ c.adapter = "box" => c.Fails + c.MaxBusy > 0
     /\ ~c.Ties => c.adapter = "duo" \/ (c.adapter \in {"slack", "wiz"} /\ (c.PageSize = 4 \/ ~c.Descending))
     /\ c.Descending => c.adapter \in {"slack", "wiz"}}

MCCatoConfs == [ShipFails : BOOLEAN, Dies : BOOLEAN, Calls : BOOLEAN]
==============================================================================
