--------------------------- MODULE PollersProofs ---------------------------
(***************************************************************************)
(* The polling adapters for every number of events, every clock and every  *)
(* situation: their types, that no event is shipped twice, that none is    *)
(* missed, and that the marker of cato is never ahead of what it has       *)
(* shipped.                                                                *)
(***************************************************************************)
EXTENDS PollingAdapters, Sequences, FiniteSetTheorems, WellFoundedInduction, TLAPS

-----------------------------------------------------------------------------
(***************************************************************************)
(* cato.                                                                   *)
(***************************************************************************)
\* What has been shipped or left out in this life of the process.
Done == marker - Len(batch)

Accounted(e) == shipped[e] > 0 \/ e \in dropped

\* The batch is what lies between the events done and the marker, and empty when nothing
\* is being shipped.
BatchInv ==
  /\ batch \in Seq(Nat) /\ Done \in Nat
  /\ \A i \in 1 .. Len(batch) : batch[i] = Done + i
  /\ pc # "ship" => batch = <<>>
  /\ pc # "dead" => attempts < MaxErrors

\* The events done are accounted for; those not done yet were not shipped in this life.
LifeInv ==
  pc # "dead" =>
    /\ \A e \in A!Events : e <= Done => Accounted(e)
    /\ \A e \in A!Events : e > Done => shipped[e] < starts

CatoInv == A!TypeOK /\ BatchInv /\ LifeInv /\ A!SavedIsShipped /\ A!AgainNeedsRestart

\* The types of the constants of cato.
LEMMA CatoConstants ==
  N \in Nat /\ CatoPageSize \in Nat /\ MaxRetries \in Nat /\ MaxErrors \in Nat \ {0} /\ MaxStarts \in Nat \ {0}
BY PollersAssumption, CatoAssumption

\* NewCatoAdapter establishes the invariant.
LEMMA CatoInit == A!Init => CatoInv
<1> SUFFICES ASSUME A!Init PROVE CatoInv OBVIOUS
<1> USE CatoConstants, CatoAssumption
<1>1. batch = <<>> /\ Len(batch) = 0 /\ batch \in Seq(Nat) BY DEF A!Init
<1>2. A!TypeOK BY DEF A!Init, A!TypeOK
<1>3. BatchInv BY <1>1 DEF A!Init, BatchInv, Done
<1>4. LifeInv BY <1>1 DEF A!Init, LifeInv, Done, A!Events
<1>5. A!SavedIsShipped /\ A!AgainNeedsRestart
  BY DEF A!Init, A!SavedIsShipped, A!AgainNeedsRestart, A!Saved
<1>6. QED BY <1>2, <1>3, <1>4, <1>5 DEF CatoInv

\* Steps that touch neither what is to be shipped nor what was.
LEMMA CatoQuiet ==
  ASSUME CatoInv, UNCHANGED <<conf, marker, batch, starts, shipped, dropped>>,
         feed' \in feed .. N, retries' \in 0 .. MaxRetries, attempts' \in 0 .. MaxErrors,
         pc' \in {"query", "ship", "truncate", "write", "sleep"}, pc # "dead",
         pc' = "ship" \/ batch = <<>>,
         attempts' < MaxErrors, file' \in {0, file} \/ (file' = marker /\ batch = <<>>)
  PROVE CatoInv'
<1> USE CatoConstants
<1>t. A!TypeOK /\ BatchInv /\ LifeInv BY DEF CatoInv
<1>0. batch = <<>> => Len(batch) = 0 OBVIOUS
<1>1. A!TypeOK'
  <2>1. marker' \in 0 .. feed' /\ file' \in 0 .. feed' /\ feed' \in 0 .. N BY <1>t DEF A!TypeOK
  <2>2. QED BY <2>1, <1>t DEF A!TypeOK
<1>2. BatchInv' /\ LifeInv' BY <1>t DEF BatchInv, LifeInv, Done, Accounted
<1>3. A!SavedIsShipped'
  <2>1. CASE file' \in {0, file} BY <2>1, <1>t DEF CatoInv, A!SavedIsShipped, A!Saved, A!TypeOK
  <2>2. CASE file' = marker /\ batch = <<>>
    <3>1. \A e \in 1 .. marker : e \in A!Events /\ e <= Done
      BY <2>2, <1>0, <1>t DEF Done, A!TypeOK, A!Events
    <3>2. QED BY <2>2, <3>1, <1>t DEF LifeInv, Accounted, A!SavedIsShipped, A!Saved
  <2>3. QED BY <2>1, <2>2
<1>4. A!AgainNeedsRestart' BY DEF CatoInv, A!AgainNeedsRestart
<1>5. QED BY <1>1, <1>2, <1>3, <1>4 DEF CatoInv

\* However the process ends, the file and what was shipped stay.
LEMMA CatoDies ==
  ASSUME CatoInv, UNCHANGED <<conf, feed, marker, file, starts, shipped, dropped>>,
         pc' = "dead", batch' = <<>>, retries' \in 0 .. MaxRetries, attempts' \in 0 .. MaxErrors
  PROVE CatoInv'
<1> USE CatoConstants
<1>1. A!TypeOK' BY DEF CatoInv, A!TypeOK, A!IsConf
<1>2. BatchInv' /\ LifeInv' BY <1>1 DEF BatchInv, LifeInv, Done, A!TypeOK
<1>3. A!SavedIsShipped' /\ A!AgainNeedsRestart'
  BY DEF CatoInv, A!SavedIsShipped, A!Saved, A!AgainNeedsRestart
<1>4. QED BY <1>1, <1>2, <1>3 DEF CatoInv

\* A step that leaves the variables of cato alone.
LEMMA CatoStutter == ASSUME CatoInv, UNCHANGED A!vars PROVE CatoInv'
BY DEF CatoInv, A!vars, A!TypeOK, BatchInv, LifeInv, Done, Accounted, A!SavedIsShipped, A!Saved, A!AgainNeedsRestart

\* Every step of cato keeps the invariant.
LEMMA CatoStep == ASSUME CatoInv, A!Next PROVE CatoInv'
<1> USE CatoConstants
<1>t. A!TypeOK /\ BatchInv /\ LifeInv BY DEF CatoInv
<1>1. CASE A!Fetch
  <2> DEFINE k == A!Upto - marker
  <2>1. A!Upto \in marker .. feed /\ k \in Nat BY <1>t DEF A!Upto, A!TypeOK
  <2>2. /\ UNCHANGED <<conf, feed, file, starts, shipped, dropped>> /\ pc = "query" /\ pc' = "ship"
        /\ retries' = 0 /\ attempts' = 0 /\ marker' = A!Upto /\ batch' = [i \in 1 .. k |-> marker + i]
    BY <1>1 DEF A!Fetch
  <2>3. marker \in Nat BY <1>t DEF A!TypeOK
  <2> HIDE DEF k
  <2>4. batch' \in Seq(Nat) /\ Len(batch') = k /\ \A i \in 1 .. k : batch'[i] = marker + i
    BY <2>1, <2>2, <2>3
  <2>5. Done' = marker BY <2>1, <2>2, <2>3, <2>4 DEF Done, k
  <2>6. batch = <<>> /\ Done = marker
    <3>1. batch = <<>> BY <2>2, <1>t DEF BatchInv
    <3>2. QED BY <3>1, <2>3 DEF Done
  <2>7. A!TypeOK' BY <2>1, <2>2, <1>t DEF A!TypeOK, A!IsConf
  <2>8. BatchInv'
    <3>1. pc' = "ship" /\ attempts' < MaxErrors BY <2>2
    <3> HIDE CatoConstants
    <3>2. QED BY <2>1, <2>3, <2>4, <2>5, <3>1 DEF BatchInv
  <2>9. LifeInv' BY <2>2, <2>5, <2>6, <1>t DEF LifeInv, Accounted
  <2>10. A!SavedIsShipped' /\ A!AgainNeedsRestart'
    BY <2>2 DEF CatoInv, A!SavedIsShipped, A!Saved, A!AgainNeedsRestart
  <2>11. QED BY <2>7, <2>8, <2>9, <2>10 DEF CatoInv
<1>2. CASE A!ShipNext \/ A!ShipFails
  <2>1. /\ UNCHANGED <<conf, feed, pc, retries, attempts, marker, file, starts>> /\ pc = "ship" /\ batch # <<>>
        /\ batch' = Tail(batch)
    BY <1>2 DEF A!ShipNext, A!ShipFails
  <2>2. batch \in Seq(Nat) BY <1>t DEF BatchInv
  <2>3. /\ batch' \in Seq(Nat) /\ Len(batch') = Len(batch) - 1 /\ Len(batch) \in Nat \ {0}
        /\ \A i \in 1 .. Len(batch') : batch'[i] = batch[i + 1]
        /\ Head(batch) = batch[1]
    BY <2>1, <2>2
  <2>4. /\ marker \in Nat /\ Done \in Nat /\ Done' = Done + 1 /\ Head(batch) = Done + 1 /\ Done + 1 <= marker
        /\ marker <= N
    BY <2>1, <2>3, <1>t DEF BatchInv, Done, A!TypeOK
  <2>5. Done + 1 \in A!Events BY <2>4 DEF A!Events
  <2>6. /\ shipped' \in [A!Events -> 0 .. MaxStarts] /\ dropped' \subseteq A!Events
        /\ \A e \in A!Events : e # Done + 1 => shipped'[e] = shipped[e]
        /\ \A e \in A!Events : shipped'[e] >= shipped[e]
        /\ shipped'[Done + 1] <= shipped[Done + 1] + 1
        /\ dropped \subseteq dropped'
        /\ shipped'[Done + 1] > 0 \/ Done + 1 \in dropped'
    <3>s. shipped \in [A!Events -> 0 .. MaxStarts] /\ dropped \subseteq A!Events BY <1>t DEF A!TypeOK
    <3> DEFINE d == Done + 1
    <3>d. d \in A!Events /\ Head(batch) = d BY <2>4, <2>5
    <3> HIDE DEF d
    <3>g. SUFFICES /\ shipped' \in [A!Events -> 0 .. MaxStarts] /\ dropped' \subseteq A!Events
                   /\ \A e \in A!Events : e # d => shipped'[e] = shipped[e]
                   /\ \A e \in A!Events : shipped'[e] >= shipped[e]
                   /\ shipped'[d] <= shipped[d] + 1
                   /\ dropped \subseteq dropped'
                   /\ shipped'[d] > 0 \/ d \in dropped'
      BY DEF d
    <3>1. CASE A!ShipNext
      <4>1. dropped' = dropped /\ shipped' = [shipped EXCEPT ![d] = IF @ < MaxStarts THEN @ + 1 ELSE @]
        BY <3>1, <3>d DEF A!ShipNext
      <4>2. QED BY <4>1, <3>s, <3>d
    <3>2. CASE A!ShipFails
      BY <3>2, <3>s, <3>d DEF A!ShipFails
    <3>3. QED BY <1>2, <3>1, <3>2
  <2>7. A!TypeOK' BY <2>1, <2>6, <1>t DEF A!TypeOK, A!IsConf
  <2>8. BatchInv' BY <2>1, <2>3, <2>4, <1>t DEF BatchInv
  <2>s. shipped \in [A!Events -> 0 .. MaxStarts] /\ starts \in Nat BY <1>t DEF A!TypeOK
  <2>9. LifeInv'
    <3>1. pc # "dead" BY <2>1
    <3>2. ASSUME NEW e \in A!Events, e <= Done + 1 PROVE Accounted(e)'
      <4>1. CASE e = Done + 1 BY <4>1, <2>6 DEF Accounted
      <4>2. CASE e # Done + 1
        <5>1. e <= Done BY <3>2, <4>2, <2>4 DEF A!Events
        <5>2. Accounted(e) BY <5>1, <3>1, <1>t DEF LifeInv
        <5>3. QED BY <5>2, <4>2, <2>6 DEF Accounted
      <4>3. QED BY <4>1, <4>2
    <3>3. ASSUME NEW e \in A!Events, e > Done + 1 PROVE shipped'[e] < starts
      <4>1. e > Done /\ e # Done + 1 BY <3>3, <2>4 DEF A!Events
      <4>2. QED BY <4>1, <3>1, <2>6, <1>t DEF LifeInv
    <3>4. QED BY <3>2, <3>3, <2>1, <2>4 DEF LifeInv
  <2>10. A!SavedIsShipped'
    <3>1. file \in Nat /\ 1 .. file \subseteq A!Events BY <1>t DEF A!TypeOK, A!Events
    <3>2. QED BY <2>1, <2>6, <2>s, <3>1 DEF CatoInv, A!SavedIsShipped, A!Saved
  <2>11. A!AgainNeedsRestart'
    <3>1. shipped[Done + 1] < starts BY <2>1, <2>4, <2>5, <1>t DEF LifeInv
    <3>2. shipped'[Done + 1] <= starts BY <3>1, <2>5, <2>6, <2>s
    <3>3. QED BY <3>2, <2>1, <2>6 DEF CatoInv, A!AgainNeedsRestart
  <2>12. QED BY <2>7, <2>8, <2>9, <2>10, <2>11 DEF CatoInv
<1>3. CASE A!ShippedAll \/ A!Truncate \/ A!Write \/ A!WriteFails \/ A!Sleep \/ (A!NewEvent /\ pc # "dead")
           \/ A!SendRetries \/ (A!AnswerErrors /\ attempts + 1 # MaxErrors)
  <2>1. UNCHANGED <<conf, marker, batch, starts, shipped, dropped>> /\ pc # "dead"
    BY <1>3 DEF A!ShippedAll, A!Truncate, A!Write, A!WriteFails, A!Sleep, A!NewEvent, A!SendRetries, A!AnswerErrors
  <2>f. feed \in 0 .. N /\ retries \in 0 .. MaxRetries BY <1>t DEF A!TypeOK
  <2>2. feed' \in feed .. N /\ retries' \in 0 .. MaxRetries
    BY <1>3, <2>f DEF A!ShippedAll, A!Truncate, A!Write, A!WriteFails, A!Sleep, A!NewEvent, A!SendRetries, A!AnswerErrors
  <2>3. attempts' \in 0 .. MaxErrors /\ attempts' < MaxErrors
    BY <1>3, <2>1, <1>t
       DEF A!ShippedAll, A!Truncate, A!Write, A!WriteFails, A!Sleep, A!NewEvent, A!SendRetries, A!AnswerErrors, A!TypeOK, BatchInv
  <2>4. pc' \in {"query", "ship", "truncate", "write", "sleep"} /\ (pc' = "ship" \/ batch = <<>>)
    BY <1>3, <1>t
       DEF A!ShippedAll, A!Truncate, A!Write, A!WriteFails, A!Sleep, A!NewEvent, A!SendRetries, A!AnswerErrors, A!TypeOK, BatchInv
  <2>5. file' \in {0, file} \/ (file' = marker /\ batch = <<>>)
    BY <1>3, <1>t
       DEF A!ShippedAll, A!Truncate, A!Write, A!WriteFails, A!Sleep, A!NewEvent, A!SendRetries, A!AnswerErrors, A!TypeOK, BatchInv
  <2>6. QED BY <2>1, <2>2, <2>3, <2>4, <2>5, CatoQuiet
<1>4. CASE A!SendGivesUp \/ A!Killed \/ A!Close \/ (A!AnswerErrors /\ attempts + 1 = MaxErrors)
  <2>1. /\ UNCHANGED <<conf, feed, marker, file, starts, shipped, dropped>>
        /\ pc' = "dead" /\ batch' = <<>> /\ retries' \in 0 .. MaxRetries /\ attempts' \in 0 .. MaxErrors
    BY <1>4, <1>t DEF A!SendGivesUp, A!Killed, A!Close, A!AnswerErrors, A!Die, A!TypeOK
  <2>2. QED BY <2>1, CatoDies
<1>5. CASE A!Restart
  <2>1. /\ UNCHANGED <<conf, feed, file, batch, shipped, dropped>> /\ pc = "dead" /\ pc' = "query"
        /\ marker' = file /\ retries' = 0 /\ attempts' = 0 /\ starts' = starts + 1 /\ starts < MaxStarts
    BY <1>5 DEF A!Restart
  <2>2. batch = <<>> /\ Len(batch) = 0 /\ file \in 0 .. feed /\ feed \in 0 .. N /\ starts \in Nat
    <3>1. batch = <<>> BY <2>1, <1>t DEF BatchInv
    <3>2. QED BY <3>1, <1>t DEF A!TypeOK
  <2>3. A!TypeOK' BY <2>1, <1>t DEF A!TypeOK, A!IsConf
  <2>4. Done' = file BY <2>1, <2>2 DEF Done
  <2>5. BatchInv' BY <2>1, <2>2, <2>4 DEF BatchInv
  <2>6. LifeInv'
    <3>1. \A e \in A!Events : e <= file => Accounted(e)
      <4> SUFFICES ASSUME NEW e \in A!Events, e <= file PROVE Accounted(e) OBVIOUS
      <4>1. e \in 1 .. file BY <2>2 DEF A!Events
      <4>2. QED BY <4>1 DEF CatoInv, A!SavedIsShipped, A!Saved, Accounted
    <3>2. \A e \in A!Events : shipped[e] < starts + 1
      BY <2>2, <1>t DEF CatoInv, A!AgainNeedsRestart, A!TypeOK
    <3>3. QED BY <3>1, <3>2, <2>1, <2>4 DEF LifeInv, Accounted
  <2>7. A!SavedIsShipped' BY <2>1 DEF CatoInv, A!SavedIsShipped, A!Saved
  <2>8. A!AgainNeedsRestart' BY <2>1, <2>2, <1>t DEF CatoInv, A!AgainNeedsRestart, A!TypeOK
  <2>9. QED BY <2>3, <2>5, <2>6, <2>7, <2>8 DEF CatoInv
<1>6. CASE A!Dead \/ (A!NewEvent /\ pc = "dead")
  <2>1. UNCHANGED <<conf, marker, batch, starts, shipped, dropped, pc, retries, attempts, file>> /\ pc = "dead"
    BY <1>6 DEF A!NewEvent, A!Dead, A!vars
  <2>2. feed' \in feed .. N BY <1>6, <1>t DEF A!NewEvent, A!Dead, A!vars, A!TypeOK
  <2>3. A!TypeOK' BY <2>1, <2>2, <1>t DEF A!TypeOK, A!IsConf
  <2>4. BatchInv' /\ LifeInv' BY <2>1, <1>t DEF BatchInv, LifeInv, Done
  <2>5. A!SavedIsShipped' /\ A!AgainNeedsRestart'
    BY <2>1 DEF CatoInv, A!SavedIsShipped, A!Saved, A!AgainNeedsRestart
  <2>6. QED BY <2>3, <2>4, <2>5 DEF CatoInv
<1>7. CASE A!HandleEvent BY <1>1, <1>2, <1>3, <1>7 DEF A!HandleEvent
<1>8. CASE A!NewEvent BY <1>3, <1>6, <1>8
<1>9. CASE A!AnswerErrors BY <1>3, <1>4, <1>9
<1>10. CASE A!WriteFails \/ A!SendRetries \/ A!SendGivesUp \/ A!ShipFails \/ A!Killed \/ A!Close \/ A!Restart \/ A!Dead
  BY <1>2, <1>3, <1>4, <1>5, <1>6, <1>10
<1>11. QED BY <1>7, <1>8, <1>9, <1>10 DEF A!Next

-----------------------------------------------------------------------------
(***************************************************************************)
(* Sets of events have a first and a last one.                             *)
(***************************************************************************)
Less == {ss \in Nat \X Nat : ss[1] < ss[2]}

\* A set of numbers has a least one.
LEMMA LeastExists == ASSUME NEW T, T \subseteq Nat, T # {} PROVE \E x \in T : \A y \in T : x <= y
<1>1. IsWellFoundedOn(Less, Nat) BY NatLessThanWellFounded DEF OpToRel, Less
<1>2. PICK x \in T : \A y \in T : ~ (<<y, x>> \in Less) BY <1>1, WFMin
<1>3. \A y \in T : x <= y
  <2> TAKE y \in T
  <2>1. x \in Nat /\ y \in Nat OBVIOUS
  <2>2. <<y, x>>[1] = y /\ <<y, x>>[2] = x /\ <<y, x>> \in Nat \X Nat BY <2>1
  <2>3. ~(y < x) BY <1>2, <2>2, Zenon DEF Less
  <2>4. QED BY <2>1, <2>3
<1>4. QED BY <1>3

\* A bounded set of numbers has a largest one.
LEMMA LargestExists ==
  ASSUME NEW n \in Nat, NEW T, T \subseteq 1 .. n, T # {}
  PROVE \E x \in T : \A y \in T : y <= x
<1> DEFINE D == {n - x : x \in T}
<1>1. D \subseteq Nat
  <2>1. \A x \in T : n - x \in Nat OBVIOUS
  <2>2. QED BY <2>1
<1>2. D # {}
  <2>1. PICK x \in T : TRUE OBVIOUS
  <2>2. n - x \in D OBVIOUS
  <2>3. QED BY <2>2
<1>3. PICK d \in D : \A y \in D : d <= y BY <1>1, <1>2, LeastExists
<1>4. PICK x \in T : d = n - x OBVIOUS
<1>5. \A y \in T : y <= x
  <2> TAKE y \in T
  <2>1. n - y \in D OBVIOUS
  <2>2. d <= n - y BY <2>1, <1>3
  <2>3. QED BY <2>2, <1>4
<1>6. QED BY <1>5

-----------------------------------------------------------------------------
(***************************************************************************)
(* The window pollers.                                                     *)
(***************************************************************************)
\* The types of the constants of the window pollers.
LEMMA WindowConstants ==
  /\ N \in Nat /\ MaxTime \in Nat /\ Interval \in Nat /\ LongOverlap \in Nat /\ MaxSpan \in Nat
  /\ ProofpointOverlap \in Nat /\ ProofpointOverlap < MaxSpan
BY PollersAssumption DEF ProofpointOverlap

\* What the twelve records say, as far as it matters here.
KindFacts(k) ==
  /\ k.overlap \in Nat
  /\ k.from \in {"overlap", "margin", "since", "all"}
  /\ k.new \in {"unseen", "unseenLater", "notLast", "any"}
  /\ k.stamp \in {"created", "now", "none"}
  /\ k.next \in {"lastNew", "newest", "until", "now", "never"}
  /\ k.pages \in {"none", "first", "all", "each"}
  /\ k.new = "unseen" => k.from \in {"overlap", "margin"} /\ k.stamp # "none" /\ k.pages # "each"
  /\ k.new = "unseenLater" => k.from = "all" /\ k.stamp = "created" /\ k.next = "newest" /\ k.pages = "all"
  /\ k.new = "notLast" =>
       k.from = "since" /\ k.pages = "first" /\ k.next = "lastNew" /\ k.bounded = FALSE /\ k.rejected = FALSE
  /\ k.from = "margin" =>
       k.new = "unseen" /\ k.next = "until" /\ k.pages = "none" /\ k.overlap = ProofpointOverlap
  /\ k.pages = "none" => k.from = "margin"
  /\ k.pages = "each" => k.from = "since"
  /\ {k.local, k.stops} \subseteq BOOLEAN
  /\ k.local => k.new = "notLast"

\* Every adapter of the window pollers is one of these kinds.
LEMMA KindsAreThese == \A a \in Adapters : KindFacts(Kind[a])
<1> USE PollersAssumption DEF ShortOverlap, ProofpointOverlap
<1>1. KindFacts(Okta) BY DEF KindFacts, Okta, DedupeWindow
<1>2. KindFacts(Hubspot) BY DEF KindFacts, Hubspot, DedupeWindow
<1>3. KindFacts(Pandadoc) BY DEF KindFacts, Pandadoc, DedupeWindow
<1>4. KindFacts(Zendesk) BY DEF KindFacts, Zendesk, DedupeWindow
<1>5. KindFacts(Mimecast) BY DEF KindFacts, Mimecast, DedupeWindow
<1>6. KindFacts(Sublime) BY DEF KindFacts, Sublime, DedupeWindow
<1>7. KindFacts(ProofpointTap) BY DEF KindFacts, ProofpointTap, DedupeWindow
<1>8. KindFacts(Entraid) BY DEF KindFacts, Entraid, LastEvent
<1>9. KindFacts(Defender) BY DEF KindFacts, Defender, LastEvent
<1>10. KindFacts(MsGraph) BY DEF KindFacts, MsGraph, LastEvent
<1>11. KindFacts(TrendMicro) BY DEF KindFacts, TrendMicro, LastEvent
<1>12. KindFacts(Bitwarden) BY DEF KindFacts, Bitwarden, TrendMicro, LastEvent
<1>13. \A a \in Adapters : Kind[a] \in {Okta, Hubspot, Pandadoc, Zendesk, Mimecast, Sublime, ProofpointTap, Entraid,
                                        Defender, MsGraph, TrendMicro, Bitwarden}
  BY DEF Adapters, Kind
<1>14. QED BY <1>1, <1>2, <1>3, <1>4, <1>5, <1>6, <1>7, <1>8, <1>9, <1>10, <1>11, <1>12, <1>13

Taken(e) == shipped[e] > 0 \/ e \in items

\* Events are published in their order, and not ahead of the clock.
PublishedInOrder ==
  \A e \in Events :
    /\ created[e] <= now
    /\ \A f \in Events : f < e /\ created[e] # None =>
         created[f] # None /\ created[f] <= created[e] /\ (~conf.Ties => created[f] < created[e])

\* The dedupe map holds published events only, under a time that is not before theirs.
StampInv ==
  /\ \A e \in Events : dedupe[e] # None => created[e] # None /\ created[e] <= dedupe[e]
  /\ \A e \in Events : Taken(e) => created[e] # None

PageInv ==
  /\ pc = "ship" /\ page > 0 => kind.pages = "each"
  /\ pc = "page" /\ kind.pages \in {"first", "none"} => page = 1

\* The windows of proofpoint_tap never start earlier than the one before.
MarginInv ==
  kind.from = "margin" =>
    /\ pc = "page" => start = since - kind.overlap /\ since <= until /\ last = since
    /\ pc = "ship" => until = since

\* No window to come shows the event again.
Gone(e) ==
  IF kind.from = "margin" THEN created[e] < since - kind.overlap
  ELSE created[e] < now - kind.overlap /\ (pc = "page" => created[e] < start)

UnseenInv == kind.new = "unseen" => \A e \in Events : Taken(e) => dedupe[e] # None \/ Gone(e)

LaterInv ==
  kind.new = "unseenLater" =>
    /\ since <= last /\ (pc # "page" => since = last)
    /\ \A e \in Events : Taken(e) => created[e] <= last /\ (dedupe[e] # None \/ created[e] <= since)

\* lastId is the newest event taken, and the next window starts at its time.
LastInv ==
  kind.new = "notLast" /\ Steady /\ ~conf.Ties =>
    /\ pc = "page" => start = since
    /\ \/ lastId = 0 /\ \A e \in Events : ~Taken(e)
       \/ /\ lastId \in Events /\ created[lastId] # None /\ created[lastId] = since
          /\ \A e \in Events : Taken(e) => e <= lastId

OnceInv == ShipsOnce => \A e \in Events : shipped[e] < 2 /\ (e \in items => shipped[e] = 0)

SeenInv == UnseenInv /\ LaterInv /\ LastInv

WindowInv == TypeOK /\ PublishedInOrder /\ StampInv /\ PageInv /\ MarginInv /\ SeenInv /\ OnceInv

\* What a situation of a window poller is made of.
LEMMA WindowConf ==
  ASSUME conf \in Confs
  PROVE /\ conf.adapter \in Adapters /\ conf.PageSize \in Nat \ {0} /\ conf.Fails \in Nat /\ conf.MaxBusy \in Nat
        /\ KindFacts(kind) /\ First \in Int /\ (~kind.local => First = 0)
<1>1. conf \in Conf BY PollersAssumption
<1>2. conf.adapter \in Adapters /\ conf.PageSize \in Nat \ {0} /\ conf.Fails \in Nat /\ conf.MaxBusy \in Nat
  BY <1>1 DEF Conf
<1>3. conf.Zone \in Int BY <1>1 DEF Conf
<1>4. QED BY <1>2, <1>3, KindsAreThese DEF kind, First

\* The first state of a window poller.
LEMMA WindowInit == Init => WindowInv
<1> SUFFICES ASSUME Init PROVE WindowInv OBVIOUS
<1> USE WindowConstants
<1>c. conf \in Confs BY DEF Init
<1>k. KindFacts(kind) /\ conf.Fails \in Nat /\ conf.MaxBusy \in Nat /\ First \in Int BY <1>c, WindowConf
<1>1. TypeOK
  <2>1. created \in [Events -> None .. MaxTime] /\ dedupe \in [Events -> None .. MaxTime] /\ shipped \in [Events -> 0 .. 2]
    BY DEF Init, None
  <2>2. deadline \in 0 .. MaxTime + Interval + conf.MaxBusy /\ fails \in 0 .. conf.Fails BY <1>k DEF Init
  <2>3. isStop \in BOOLEAN BY DEF Init
  <2>4. QED BY <2>1, <2>2, <2>3 DEF Init, TypeOK
<1>2. \A e \in Events : created[e] = None /\ dedupe[e] = None /\ shipped[e] = 0 /\ ~Taken(e)
  BY DEF Init, Taken
<1>3. now = 0 /\ pc = "wait" /\ since = First /\ last = 0 /\ lastId = 0 /\ items = {} BY DEF Init
<1>z. kind.new = "unseenLater" => First = 0
  <2>1. kind.new = "unseenLater" => ~kind.local BY <1>k DEF KindFacts
  <2>2. QED BY <2>1, <1>c, WindowConf
<1>4. PublishedInOrder BY <1>2, <1>3 DEF PublishedInOrder, None
<1>5. StampInv BY <1>2 DEF StampInv
<1>6. PageInv /\ MarginInv BY <1>3 DEF PageInv, MarginInv
<1>7. SeenInv BY <1>2, <1>3, <1>z DEF SeenInv, UnseenInv, LaterInv, LastInv
<1>8. OnceInv BY <1>2, <1>3 DEF OnceInv
<1>9. QED BY <1>1, <1>4, <1>5, <1>6, <1>7, <1>8 DEF WindowInv

\* kind and the situations do not change.
LEMMA KindStays == ASSUME conf' = conf PROVE kind' = kind /\ ShipsOnce' = ShipsOnce /\ Steady' = Steady /\ First' = First
BY DEF kind, ShipsOnce, Steady, First

\* The clock.
LEMMA WindowTick == ASSUME WindowInv, Tick PROVE WindowInv'
<1> USE WindowConstants
<1>t. TypeOK /\ PublishedInOrder BY DEF WindowInv
<1>u. UNCHANGED <<conf, created, pc, deadline, since, lastId, start, until, last, dedupe, page, items, fails, isStop, closer,
                  shipped, asked>>
  BY DEF Tick, windowVars
<1>n. now \in Nat /\ now' = now + 1 /\ now' \in 0 .. MaxTime BY <1>t DEF Tick, TypeOK
<1>k. KindFacts(kind) /\ kind' = kind /\ (ShipsOnce' <=> ShipsOnce) /\ (Steady' <=> Steady) /\ First' = First
  <2>1. conf' = conf /\ conf \in Confs BY <1>u, <1>t DEF TypeOK
  <2>2. QED BY <2>1, KindStays, WindowConf
<1>c. \A e \in Events : created[e] \in Int /\ created[e] <= now BY <1>t DEF PublishedInOrder, TypeOK, None
<1>1. TypeOK'
  <2>0. 0 .. now \subseteq 0 .. now' /\ -ProofpointOverlap .. now \subseteq -ProofpointOverlap .. now' BY <1>n
  <2>1. /\ since \in 0 .. now' \union {First} /\ until \in 0 .. now'
        /\ start \in -ProofpointOverlap .. now' \union {First} /\ last \in 0 .. now' \union {First}
        /\ asked \in 0 .. now'
    BY <2>0, <1>t DEF TypeOK
  <2>2. QED BY <1>n, <1>u, <1>k, <1>t, <2>1 DEF TypeOK
<1>2. PublishedInOrder' BY <1>n, <1>u, <1>c, <1>t DEF PublishedInOrder
<1>3. StampInv' /\ PageInv' /\ MarginInv'
  BY <1>u, <1>k DEF WindowInv, StampInv, PageInv, MarginInv, Taken
<1>4. UnseenInv'
  <2> SUFFICES ASSUME kind.new = "unseen", NEW e \in Events, Taken(e), dedupe[e] = None PROVE Gone(e)'
    BY <1>u, <1>k DEF UnseenInv, Taken
  <2>1. Gone(e) BY DEF WindowInv, SeenInv, UnseenInv
  <2>2. kind.overlap \in Nat BY <1>k DEF KindFacts
  <2>3. QED BY <2>1, <2>2, <1>u, <1>k, <1>c, <1>n DEF Gone
<1>5. LaterInv' /\ LastInv' /\ OnceInv'
  BY <1>u, <1>k DEF WindowInv, SeenInv, LaterInv, LastInv, OnceInv, Taken
<1>6. QED BY <1>1, <1>2, <1>3, <1>4, <1>5 DEF WindowInv, SeenInv

\* The world publishes an event: one that nobody has taken.
LEMMA WindowPublish == ASSUME WindowInv, NEW p \in Events, Publish(p) PROVE WindowInv'
<1> USE WindowConstants
<1>t. TypeOK /\ PublishedInOrder /\ StampInv BY DEF WindowInv
<1>u. UNCHANGED <<conf, now, pc, deadline, since, lastId, start, until, last, dedupe, page, items, fails, isStop, closer,
                  shipped, asked>>
  BY DEF Publish, windowVars
<1>n. now \in 0 .. MaxTime /\ created \in [Events -> None .. MaxTime] BY <1>t DEF TypeOK
<1>k. kind' = kind /\ (ShipsOnce' <=> ShipsOnce) /\ (Steady' <=> Steady) /\ First' = First BY <1>u, KindStays
<1>c. created[p] = None /\ created' = [created EXCEPT ![p] = now] BY DEF Publish
<1>d. created' \in [Events -> None .. MaxTime] /\ created'[p] = now /\ \A e \in Events : e # p => created'[e] = created[e]
  BY <1>c, <1>n DEF None
<1>1. TypeOK' BY <1>u, <1>k, <1>d, <1>t DEF TypeOK
<1>2. PublishedInOrder'
  <2> SUFFICES ASSUME NEW e \in Events
               PROVE /\ created'[e] <= now
                     /\ \A f \in Events : f < e /\ created'[e] # None =>
                          created'[f] # None /\ created'[f] <= created'[e] /\ (~conf.Ties => created'[f] < created'[e])
    BY <1>u DEF PublishedInOrder
  <2>1. created'[e] <= now BY <1>d, <1>n, <1>t DEF PublishedInOrder
  <2> SUFFICES ASSUME NEW f \in Events, f < e, created'[e] # None
               PROVE created'[f] # None /\ created'[f] <= created'[e] /\ (~conf.Ties => created'[f] < created'[e])
    BY <2>1
  <2>2. CASE e = p
    <3>i. p \in Nat /\ f \in Nat /\ p > 1 BY <2>2 DEF Events
    <3>1. created[p - 1] # None /\ (created[p - 1] < now \/ conf.Ties) /\ p - 1 \in Events /\ created[p - 1] <= now
      BY <3>i, <1>t DEF Publish, Events, PublishedInOrder
    <3>2. CASE f = p - 1 BY <3>2, <3>1, <2>2, <1>d
    <3>3. CASE f # p - 1
      <4>1. f < p - 1 /\ f # p BY <3>3, <3>i, <2>2
      <4>2. created[f] # None /\ created[f] <= created[p - 1] BY <4>1, <3>1, <1>t DEF PublishedInOrder
      <4>3. created[f] \in Int /\ created[p - 1] \in Int BY <1>n, <3>1 DEF None
      <4>4. ~conf.Ties => created[f] < now BY <4>2, <4>3, <3>1, <1>n
      <4>5. QED BY <4>1, <4>2, <4>3, <4>4, <3>1, <2>2, <1>d, <1>n
    <3>4. QED BY <3>2, <3>3
  <2>3. CASE e # p
    <3>1. created[e] # None BY <2>3, <1>d
    <3>2. created[f] # None /\ created[f] <= created[e] /\ (~conf.Ties => created[f] < created[e])
      BY <3>1, <1>t DEF PublishedInOrder
    <3>3. f # p BY <3>2, <1>c
    <3>4. QED BY <2>3, <3>2, <3>3, <1>d
  <2>4. QED BY <2>2, <2>3
<1>s. \A e \in Events : created[e] # None => created'[e] = created[e] BY <1>c, <1>d
<1>3. StampInv' BY <1>u, <1>s, <1>t DEF StampInv, Taken
<1>4. PageInv' /\ MarginInv' BY <1>u, <1>k DEF WindowInv, PageInv, MarginInv
<1>5. UnseenInv' /\ LaterInv'
  BY <1>u, <1>k, <1>s, <1>t DEF WindowInv, SeenInv, UnseenInv, LaterInv, StampInv, Taken, Gone
<1>6. LastInv' /\ OnceInv'
  BY <1>u, <1>k, <1>s DEF WindowInv, SeenInv, LastInv, OnceInv, Taken
<1>7. QED BY <1>1, <1>2, <1>3, <1>4, <1>5, <1>6 DEF WindowInv, SeenInv

\* Steps that neither take nor ship an event, nor touch the window.
LEMMA WindowQuiet ==
  ASSUME WindowInv,
         UNCHANGED <<conf, now, created, deadline, since, lastId, start, until, last, dedupe, page, items, fails, shipped,
                     asked>>,
         isStop' \in BOOLEAN, closer' \in {"no", "wait", "closed"},
         pc' = pc \/ (pc # "page" /\ pc' = "ended") \/ (pc = "ship" /\ page > 0 /\ pc' = "page")
  PROVE WindowInv'
<1> USE WindowConstants
<1>t. TypeOK BY DEF WindowInv
<1>k. KindFacts(kind) /\ kind' = kind /\ (ShipsOnce' <=> ShipsOnce) /\ (Steady' <=> Steady) /\ First' = First
  <2>1. conf \in Confs BY <1>t DEF TypeOK
  <2>2. QED BY <2>1, KindStays, WindowConf
<1>p. pc' = pc \/ pc' = "ended" \/ kind.new = "any"
  BY <1>k DEF WindowInv, PageInv, KindFacts
<1>q. pc' = pc \/ pc' = "ended" \/ (pc' = "page" /\ kind.pages = "each" /\ kind.from = "since")
  BY <1>k DEF WindowInv, PageInv, KindFacts
<1>1. TypeOK' BY <1>t, <1>k DEF TypeOK
<1>2. PublishedInOrder' /\ StampInv' BY DEF WindowInv, PublishedInOrder, StampInv, Taken
<1>3. PageInv' /\ MarginInv' BY <1>k, <1>q DEF WindowInv, PageInv, MarginInv
<1>4. UnseenInv'
  <2>1. \A e \in Events : Taken(e)' <=> Taken(e) BY DEF Taken
  <2>2. \A e \in Events : kind.new = "unseen" => (Gone(e) => Gone(e)')
    BY <1>k, <1>p DEF Gone
  <2>3. QED BY <2>1, <2>2, <1>k DEF WindowInv, SeenInv, UnseenInv
<1>l. LaterInv' BY <1>k, <1>p DEF WindowInv, SeenInv, LaterInv, Taken
<1>5. LastInv' /\ OnceInv' BY <1>k, <1>p DEF WindowInv, SeenInv, LastInv, OnceInv, Taken
<1>6. QED BY <1>1, <1>2, <1>3, <1>4, <1>l, <1>5 DEF WindowInv, SeenInv

\* A cycle begins: the window starts where no event that the dedupe map has forgotten is.
LEMMA WindowRequest == ASSUME WindowInv, Request PROVE WindowInv'
<1> USE WindowConstants
<1>t. TypeOK BY DEF WindowInv
<1>u. UNCHANGED <<conf, now, created, since, lastId, dedupe, fails, isStop, closer, shipped, asked>> BY DEF Request
<1>k. KindFacts(kind) /\ kind' = kind /\ (ShipsOnce' <=> ShipsOnce) /\ (Steady' <=> Steady) /\ conf.MaxBusy \in Nat
      /\ First' = First /\ First \in Int /\ (~kind.local => First = 0)
  <2>1. conf \in Confs BY <1>t DEF TypeOK
  <2>2. QED BY <2>1, <1>u, KindStays, WindowConf
<1>r. pc = "wait" /\ pc' = "page" /\ page' = 1 /\ items' = {} /\ start' = WindowStart /\ until' = WindowEnd
      /\ last' = (IF kind.next = "lastNew" /\ kind.new = "unseen" THEN 0 ELSE since) /\ deadline' = now + conf.MaxBusy
  BY DEF Request, FirstPage
<1>n. /\ now \in 0 .. MaxTime /\ since \in Int /\ since \in 0 .. now \union {First} /\ kind.overlap \in Nat
      /\ kind.from # "since" => since \in 0 .. now
  <2>1. kind.from # "since" => First = 0 BY <1>k DEF KindFacts
  <2>2. QED BY <2>1, <1>t, <1>k DEF TypeOK, KindFacts
<1>w. /\ WindowStart \in -ProofpointOverlap .. now \union {First} /\ WindowStart \in Int
      /\ kind.from = "margin" => WindowStart <= now
      /\ kind.from = "overlap" => now - kind.overlap <= WindowStart
      /\ kind.from = "margin" => WindowStart = since - kind.overlap
      /\ kind.from = "since" => WindowStart = since
  <2>1. kind.from \in {"overlap", "margin", "since", "all"} /\ (kind.from = "margin" => kind.overlap = ProofpointOverlap)
    BY <1>k DEF KindFacts
  <2>2. CASE kind.from = "overlap" BY <2>2, <1>n DEF WindowStart, Later
  <2>3. CASE kind.from = "margin" BY <2>1, <2>3, <1>n DEF WindowStart
  <2>4. CASE kind.from = "since" BY <2>4, <1>n DEF WindowStart
  <2>5. CASE kind.from = "all" BY <2>5, <1>n DEF WindowStart
  <2>6. QED BY <2>1, <2>2, <2>3, <2>4, <2>5
<1>e. WindowEnd \in 0 .. now /\ (kind.from = "margin" => since <= WindowEnd)
  <2>1. kind.from = "margin" => kind.overlap = ProofpointOverlap BY <1>k DEF KindFacts
  <2>2. QED BY <2>1, <1>w, <1>n DEF WindowEnd
<1>1. TypeOK'
  <2>1. deadline' \in 0 .. MaxTime + Interval + conf.MaxBusy BY <1>r, <1>n, <1>k
  <2>2. page' \in 0 .. N + 1 /\ page' > 0 /\ until' \in 0 .. now
        /\ last' \in 0 .. now \union {First} /\ start' \in -ProofpointOverlap .. now \union {First}
    BY <1>r, <1>n, <1>w, <1>e
  <2>3. QED BY <1>r, <1>u, <1>k, <2>1, <2>2, <1>t DEF TypeOK
<1>i. items = {} BY <1>r, <1>t DEF TypeOK
<1>T. \A e \in Events : Taken(e)' <=> Taken(e) BY <1>r, <1>i, <1>u DEF Taken
<1>2. PublishedInOrder' /\ StampInv' BY <1>u, <1>T DEF WindowInv, PublishedInOrder, StampInv
<1>3. PageInv' BY <1>r DEF PageInv
<1>4. MarginInv'
  <2>1. kind.from = "margin" => kind.new = "unseen" /\ kind.next = "until" BY <1>k DEF KindFacts
  <2>2. QED BY <2>1, <1>r, <1>w, <1>e, <1>k, <1>u DEF MarginInv
<1>5. UnseenInv'
  <2> SUFFICES ASSUME kind.new = "unseen", NEW e \in Events, Taken(e), dedupe[e] = None PROVE Gone(e)'
    BY <1>u, <1>k, <1>T DEF UnseenInv
  <2>1. Gone(e) /\ created[e] \in Int /\ (kind.from = "margin" \/ kind.from = "overlap")
    BY <1>t, <1>k DEF WindowInv, SeenInv, UnseenInv, TypeOK, None, KindFacts
  <2>2. QED BY <2>1, <1>r, <1>u, <1>k, <1>w, <1>n DEF Gone
<1>6. LaterInv'
  <2>1. kind.new = "unseenLater" => last' = since /\ last = since /\ since \in Int BY <1>r, <1>n DEF WindowInv, SeenInv, LaterInv
  <2>2. QED BY <2>1, <1>u, <1>k, <1>T, <1>r DEF WindowInv, SeenInv, LaterInv
<1>7. LastInv'
  <2>1. kind.new = "notLast" => start' = since BY <1>r, <1>w, <1>k DEF KindFacts
  <2>2. QED BY <2>1, <1>u, <1>k, <1>T DEF WindowInv, SeenInv, LastInv
<1>8. OnceInv' BY <1>u, <1>k, <1>r DEF WindowInv, OnceInv
<1>9. QED BY <1>1, <1>2, <1>3, <1>4, <1>5, <1>6, <1>7, <1>8 DEF WindowInv, SeenInv

\* An answer holds published events of the window; the newest of a set is in it.
LEMMA AnswerFacts ==
  ASSUME WindowInv
  PROVE /\ New \subseteq Answer /\ Answer \subseteq Window /\ Window \subseteq Events
        /\ \A e \in Window : created[e] # None /\ created[e] \in 0 .. now /\ start <= created[e]
<1>t. TypeOK /\ PublishedInOrder BY DEF WindowInv
<1>1. New \subseteq Answer /\ Answer \subseteq Window /\ Window \subseteq Events BY DEF New, Answer, Window
<1>2. \A e \in Window : e \in Events /\ created[e] # None /\ start <= created[e] BY DEF Window
<1>3. \A e \in Events : created[e] \in None .. MaxTime /\ created[e] <= now /\ now \in Nat BY <1>t DEF PublishedInOrder, TypeOK
<1>4. QED BY <1>1, <1>2, <1>3, WindowConstants DEF None

\* The newest of a set of events.
LEMMA NewestFacts ==
  ASSUME NEW E, E \subseteq Events, E # {}
  PROVE Newest(E) \in E /\ \A f \in E : f <= Newest(E)
<1>1. \E e \in E : \A f \in E : f <= e BY WindowConstants, LargestExists DEF Events
<1>2. QED BY <1>1 DEF Newest

\* The newest new event has the latest time of them.
LEMMA NewestIsLatest ==
  ASSUME WindowInv, New # {}
  PROVE /\ Newest(New) \in New /\ created[Newest(New)] \in 0 .. now
        /\ \A e \in New : e <= Newest(New) /\ created[e] <= created[Newest(New)]
<1> DEFINE m == Newest(New)
<1>1. m \in New /\ \A f \in New : f <= m BY AnswerFacts, NewestFacts
<1>2. m \in Events /\ created[m] # None /\ created[m] \in 0 .. now BY <1>1, AnswerFacts
<1> HIDE DEF m
<1>3. \A e \in New : created[e] <= created[m]
  <2> TAKE e \in New
  <2>1. e \in Events /\ e <= m BY <1>1, AnswerFacts
  <2>2. CASE e = m BY <2>2, <1>2
  <2>3. CASE e # m
    <3>1. e < m BY <2>1, <2>3, <1>2 DEF Events
    <3>2. QED BY <3>1, <2>1, <1>2 DEF WindowInv, PublishedInOrder
  <2>4. QED BY <2>2, <2>3
<1>4. QED BY <1>1, <1>2, <1>3 DEF m

\* entraid: the last event is in the answer, if no two have the same time, and no earlier one.
LEMMA LastIsAsked ==
  ASSUME WindowInv, pc = "page", kind.new = "notLast", Steady, ~conf.Ties, lastId # 0
  PROVE lastId \in Answer /\ \A e \in Answer : lastId <= e
<1>t. TypeOK BY DEF WindowInv
<1>k. KindFacts(kind) /\ conf.PageSize \in Nat \ {0}
  <2>1. conf \in Confs BY <1>t DEF TypeOK
  <2>2. QED BY <2>1, WindowConf
<1>1. lastId \in Events /\ created[lastId] # None /\ created[lastId] = since /\ start = since
  BY DEF WindowInv, SeenInv, LastInv
<1>2. page = 1 /\ ~kind.bounded BY <1>k DEF WindowInv, PageInv, KindFacts
<1>i. \A e \in Events : created[e] \in Int BY <1>t DEF TypeOK, None
<1>3. lastId \in Window BY <1>1, <1>2, <1>i DEF Window
<1>4. \A f \in Window : lastId <= f
  <2> SUFFICES ASSUME NEW f \in Window, f < lastId PROVE FALSE BY <1>1 DEF Window, Events
  <2>1. f \in Events /\ start <= created[f] BY DEF Window
  <2>2. created[f] < created[lastId] BY <2>1, <1>1 DEF WindowInv, PublishedInOrder
  <2>3. QED BY <2>1, <2>2, <1>1, <1>i
<1>5. {f \in Window : f <= lastId} = {lastId}
  <2>1. \A f \in Window : f <= lastId => f = lastId BY <1>4, <1>1 DEF Window, Events
  <2>2. lastId <= lastId BY <1>1 DEF Events
  <2>3. QED BY <1>3, <2>1, <2>2
<1>6. Place(lastId) = 1 BY <1>5, FS_Singleton DEF Place
<1>7. (page - 1) * conf.PageSize < 1 /\ 1 <= page * conf.PageSize BY <1>2, <1>k
<1>8. lastId \in Answer BY <1>3, <1>6, <1>7 DEF Answer
<1>9. QED BY <1>4, <1>8 DEF Answer

\* What an answer has that is new was not taken before.
LEMMA NewIsNotTaken ==
  ASSUME WindowInv, pc = "page", ShipsOnce, NEW e \in New PROVE ~Taken(e)
<1>t. TypeOK BY DEF WindowInv
<1>k. KindFacts(kind) /\ First \in Int
  <2>1. conf \in Confs BY <1>t DEF TypeOK
  <2>2. QED BY <2>1, WindowConf
<1>e. e \in Events /\ e \in Answer /\ created[e] \in Int /\ start <= created[e] /\ created[e] # None
  BY AnswerFacts DEF Events
<1>i. since \in Int /\ now \in Int /\ start \in Int BY <1>t, <1>k, WindowConstants DEF TypeOK
<1>1. CASE kind.new = "unseen"
  <2>1. dedupe[e] = None BY <1>1 DEF New
  <2>2. ~Gone(e) BY <1>1, <1>e, <1>i, <1>k DEF Gone, WindowInv, MarginInv, KindFacts
  <2>3. QED BY <2>1, <2>2, <1>1, <1>e DEF WindowInv, SeenInv, UnseenInv
<1>2. CASE kind.new = "unseenLater"
  <2>1. dedupe[e] = None /\ created[e] > since BY <1>2 DEF New
  <2>2. QED BY <2>1, <1>2, <1>e, <1>i DEF WindowInv, SeenInv, LaterInv
<1>3. CASE kind.new = "notLast" /\ Steady /\ ~conf.Ties
  <2>1. e # lastId BY <1>3 DEF New
  <2>2. CASE lastId = 0 BY <2>2, <1>3, <1>e DEF WindowInv, SeenInv, LastInv, Events
  <2>3. CASE lastId # 0
    <3>1. lastId <= e BY <2>3, <1>3, <1>e, LastIsAsked
    <3>2. lastId \in Events /\ (Taken(e) => e <= lastId) BY <2>3, <1>3, <1>e DEF WindowInv, SeenInv, LastInv
    <3>3. QED BY <3>1, <3>2, <2>1, <1>e DEF Events
  <2>4. QED BY <2>2, <2>3
<1>4. QED BY <1>1, <1>2, <1>3 DEF ShipsOnce

\* The page number stays within what the events can fill.
LEMMA PageBound ==
  ASSUME WindowInv, pc = "page", More PROVE page \in 1 .. N
<1> USE WindowConstants
<1>t. TypeOK BY DEF WindowInv
<1>c. conf.PageSize \in Nat \ {0}
  <2>1. conf \in Confs BY <1>t DEF TypeOK
  <2>2. QED BY <2>1, WindowConf
<1>p. page \in Nat \ {0} BY <1>t DEF TypeOK
<1>f. IsFiniteSet(Events) /\ Cardinality(Events) = N BY FS_Interval DEF Events
<1>w. IsFiniteSet(Window) /\ Cardinality(Window) \in Nat /\ Cardinality(Window) <= N
  <2>1. Window \in SUBSET Events BY DEF Window
  <2>2. IsFiniteSet(Window) /\ Cardinality(Window) <= N BY <2>1, <1>f, FS_Subset
  <2>3. QED BY <2>2, FS_CardinalityType
<1>1. CASE page * conf.PageSize < Cardinality(Window)
  <2>1. page <= page * conf.PageSize /\ page * conf.PageSize \in Nat BY <1>c, <1>p
  <2>2. QED BY <2>1, <1>1, <1>w, <1>p
<1>2. CASE Cardinality(Answer) = conf.PageSize
  <2>1. Answer # {} BY <1>2, <1>c, FS_EmptySet
  <2>2. PICK e \in Window : kind.pages # "none" => (page - 1) * conf.PageSize < Place(e) BY <2>1 DEF Answer
  <2>3. Place(e) \in Nat /\ Place(e) <= Cardinality(Window)
    <3>1. {f \in Window : f <= e} \in SUBSET Window OBVIOUS
    <3>2. QED BY <3>1, <1>w, FS_Subset, FS_CardinalityType DEF Place
  <2>4. (page - 1) * conf.PageSize < Place(e) BY <2>2 DEF More
  <2>5. page - 1 <= (page - 1) * conf.PageSize /\ (page - 1) * conf.PageSize \in Nat BY <1>c, <1>p
  <2>6. QED BY <2>3, <2>4, <2>5, <1>w, <1>p
<1>3. QED BY <1>1, <1>2 DEF More

\* What the dedupe map holds after a page, and what is left of it at the end of the cycle.
LEMMA StampedFacts ==
  ASSUME WindowInv
  PROVE /\ Stamped \in [Events -> None .. MaxTime] /\ Cull(Stamped) \in [Events -> None .. MaxTime]
        /\ \A e \in Events : Stamped[e] # None => created[e] # None /\ created[e] <= Stamped[e]
        /\ \A e \in Events : Cull(Stamped)[e] # None => Cull(Stamped)[e] = Stamped[e]
        /\ kind.stamp # "none" => \A e \in Events : e \in New \/ dedupe[e] # None => Stamped[e] # None
        /\ \A e \in Events : Stamped[e] # None /\ Cull(Stamped)[e] = None =>
             IF kind.from = "margin" THEN created[e] < start ELSE created[e] < now - kind.overlap
<1> USE WindowConstants
<1>t. TypeOK /\ StampInv BY DEF WindowInv
<1>k. KindFacts(kind) /\ First \in Int
  <2>1. conf \in Confs BY <1>t DEF TypeOK
  <2>2. QED BY <2>1, WindowConf
<1>n. now \in 0 .. MaxTime /\ kind.overlap \in Nat /\ start \in Int BY <1>t, <1>k DEF TypeOK, KindFacts
<1> DEFINE S(e) == IF e \in New /\ kind.stamp # "none" THEN IF kind.stamp = "now" THEN now ELSE created[e] ELSE dedupe[e]
<1>1. ASSUME NEW e \in Events
      PROVE /\ S(e) \in None .. MaxTime /\ created[e] \in Int
            /\ S(e) # None => created[e] # None /\ created[e] <= S(e)
            /\ kind.stamp # "none" /\ (e \in New \/ dedupe[e] # None) => S(e) # None
  <2>1. dedupe[e] \in None .. MaxTime /\ created[e] \in None .. MaxTime BY <1>t DEF TypeOK
  <2>2. e \in New => created[e] # None /\ created[e] \in 0 .. now BY AnswerFacts
  <2>3. dedupe[e] # None => created[e] # None /\ created[e] <= dedupe[e] BY <1>t DEF StampInv
  <2>4. QED BY <2>1, <2>2, <2>3, <1>n DEF None
<1>2. Stamped = [e \in Events |-> S(e)] BY DEF Stamped
<1> HIDE DEF S
<1>3. Stamped \in [Events -> None .. MaxTime] /\ \A e \in Events : Stamped[e] = S(e) BY <1>1, <1>2
<1> DEFINE b == IF kind.from = "margin" THEN start ELSE now - kind.overlap
<1>4. Cull(Stamped) = [e \in Events |-> IF Stamped[e] < b THEN None ELSE Stamped[e]] BY DEF Cull
<1>5. b \in Int BY <1>n
<1> HIDE DEF b
<1>6. /\ Cull(Stamped) \in [Events -> None .. MaxTime]
      /\ \A e \in Events : Cull(Stamped)[e] # None => Cull(Stamped)[e] = Stamped[e]
      /\ \A e \in Events : Stamped[e] # None /\ Cull(Stamped)[e] = None => Stamped[e] < b
  BY <1>3, <1>4, <1>5 DEF None
<1>7. \A e \in Events : Stamped[e] # None /\ Cull(Stamped)[e] = None => created[e] < b
  <2> TAKE e \in Events
  <2>1. Stamped[e] \in Int /\ created[e] \in Int BY <1>1, <1>3 DEF None
  <2>2. QED BY <2>1, <1>1, <1>3, <1>5, <1>6
<1>8. QED BY <1>1, <1>3, <1>6, <1>7 DEF b

\* The time kept after a page is one of the clock so far, and not before that of a new event.
LEMMA LastDetectionFacts ==
  ASSUME WindowInv
  PROVE /\ LastDetectionTime \in 0 .. now \union {First}
        /\ kind.next = "newest" => last <= LastDetectionTime /\ \A e \in New : created[e] <= LastDetectionTime
        /\ kind.next = "lastNew" => LastDetectionTime = IF New = {} THEN since ELSE created[Newest(New)]
        /\ kind.from = "margin" => LastDetectionTime = until
<1> USE WindowConstants
<1>t. TypeOK BY DEF WindowInv
<1>k. KindFacts(kind) /\ First \in Int
  <2>1. conf \in Confs BY <1>t DEF TypeOK
  <2>2. QED BY <2>1, WindowConf
<1>n. /\ now \in Nat /\ since \in 0 .. now \union {First} /\ last \in 0 .. now \union {First} /\ until \in 0 .. now
      /\ last \in Int
  BY <1>t, <1>k DEF TypeOK
<1>c. New # {} => created[Newest(New)] \in 0 .. now /\ \A e \in New : created[e] <= created[Newest(New)]
  BY NewestIsLatest
<1>i. \A e \in New : created[e] \in 0 .. now BY AnswerFacts
<1>m. kind.from = "margin" => kind.next = "until" /\ kind.pages = "none" BY <1>k DEF KindFacts
<1>1. CASE kind.next = "lastNew" BY <1>1, <1>n, <1>c, <1>m DEF LastDetectionTime
<1>2. CASE kind.next = "newest"
  <2>1. LastDetectionTime = IF New = {} THEN last ELSE Later(last, created[Newest(New)]) BY <1>2 DEF LastDetectionTime
  <2>2. CASE New = {} BY <2>1, <2>2, <1>2, <1>n, <1>m
  <2>3. CASE New # {}
    <3>1. /\ LastDetectionTime \in 0 .. now \union {First} /\ LastDetectionTime \in Int /\ last <= LastDetectionTime
          /\ created[Newest(New)] <= LastDetectionTime
      BY <2>1, <2>3, <1>n, <1>c, <1>k DEF Later
    <3>2. \A e \in New : created[e] <= LastDetectionTime BY <3>1, <2>3, <1>c, <1>i, <1>n
    <3>3. QED BY <3>1, <3>2, <1>2, <1>m
  <2>4. QED BY <2>2, <2>3
<1>3. CASE kind.next = "until" /\ kind.pages = "none" BY <1>3, <1>n DEF LastDetectionTime
<1>4. CASE kind.next \notin {"lastNew", "newest"} /\ ~(kind.next = "until" /\ kind.pages = "none")
  BY <1>4, <1>n, <1>m DEF LastDetectionTime
<1>5. QED BY <1>1, <1>2, <1>3, <1>4

\* A page that others follow.
LEMMA WindowGetPage == ASSUME WindowInv, GetPage PROVE WindowInv'
<1> USE WindowConstants
<1>t. TypeOK /\ StampInv BY DEF WindowInv
<1>u. UNCHANGED <<conf, now, created, deadline, since, lastId, start, until, fails, isStop, closer, shipped, asked>>
  BY DEF GetPage
<1>k. KindFacts(kind) /\ kind' = kind /\ (ShipsOnce' <=> ShipsOnce) /\ (Steady' <=> Steady) /\ First' = First /\ First \in Int
  <2>1. conf \in Confs BY <1>t DEF TypeOK
  <2>2. QED BY <2>1, <1>u, KindStays, WindowConf
<1>r. /\ pc = "page" /\ More /\ items' = items \union New /\ dedupe' = Stamped /\ last' = LastDetectionTime
      /\ page' = page + 1 /\ pc' = IF kind.pages = "each" THEN "ship" ELSE "page"
  BY DEF GetPage
<1>a. /\ kind.pages \in {"all", "each"} /\ kind.from # "margin" /\ kind.new # "notLast"
      /\ kind.new = "unseen" => kind.pages = "all" /\ kind.stamp # "none"
      /\ kind.new = "unseenLater" => kind.pages = "all" /\ kind.stamp # "none" /\ kind.next = "newest"
  BY <1>r, <1>k DEF More, KindFacts
<1>p. page \in 1 .. N BY <1>r, PageBound
<1>n. New \subseteq Events /\ \A e \in New : created[e] # None BY AnswerFacts
<1>d. dedupe' \in [Events -> None .. MaxTime]
      /\ (\A e \in Events : dedupe'[e] # None => created[e] # None /\ created[e] <= dedupe'[e])
      /\ (kind.stamp # "none" => \A e \in Events : e \in New \/ dedupe[e] # None => dedupe'[e] # None)
  BY <1>r, StampedFacts
<1>l. last' \in 0 .. now \union {First} /\ (kind.next = "newest" => last <= last' /\ \A e \in New : created[e] <= last')
  BY <1>r, LastDetectionFacts
<1>T. \A e \in Events : Taken(e)' <=> Taken(e) \/ e \in New BY <1>r, <1>u DEF Taken
<1>1. TypeOK'
  <2>1. page' \in 0 .. N + 1 /\ page' > 0 BY <1>r, <1>p
  <2>2. items' \subseteq Events /\ pc' \in {"page", "ship"} BY <1>r, <1>n, <1>t DEF TypeOK
  <2>3. QED BY <1>u, <1>k, <1>d, <1>l, <2>1, <2>2, <1>t DEF TypeOK
<1>2. PublishedInOrder' BY <1>u DEF WindowInv, PublishedInOrder
<1>3. StampInv' BY <1>u, <1>d, <1>T, <1>n, <1>t DEF StampInv
<1>4. PageInv' /\ MarginInv' BY <1>a, <1>r, <1>k DEF PageInv, MarginInv
<1>5. UnseenInv'
  <2> SUFFICES ASSUME kind.new = "unseen", NEW e \in Events, Taken(e) \/ e \in New, dedupe'[e] = None PROVE Gone(e)'
    BY <1>k, <1>T DEF UnseenInv
  <2>1. dedupe[e] = None /\ e \notin New BY <1>a, <1>d
  <2>2. Gone(e) BY <2>1 DEF WindowInv, SeenInv, UnseenInv
  <2>3. QED BY <2>2, <1>a, <1>r, <1>u, <1>k DEF Gone
<1>6. LaterInv'
  <2> SUFFICES ASSUME kind.new = "unseenLater"
               PROVE /\ since <= last' /\ pc' = "page"
                     /\ \A e \in Events : Taken(e) \/ e \in New =>
                          created[e] <= last' /\ (dedupe'[e] # None \/ created[e] <= since)
    BY <1>k, <1>T, <1>u DEF LaterInv
  <2>1. since \in Int /\ last \in Int /\ last' \in Int /\ last <= last' BY <1>t, <1>k, <1>l, <1>a DEF TypeOK
  <2>2. \A e \in Events : created[e] \in Int BY <1>t DEF TypeOK, None
  <2>3. since <= last /\ \A e \in Events : Taken(e) => created[e] <= last /\ (dedupe[e] # None \/ created[e] <= since)
    BY DEF WindowInv, SeenInv, LaterInv
  <2>4. QED BY <2>1, <2>2, <2>3, <1>a, <1>d, <1>l, <1>r
<1>7. LastInv' BY <1>a, <1>k DEF LastInv
<1>8. OnceInv'
  <2>1. ShipsOnce => \A e \in New : ~Taken(e) BY <1>r, NewIsNotTaken
  <2>2. \A e \in Events : shipped[e] \in Nat BY <1>t DEF TypeOK
  <2>3. QED BY <2>1, <2>2, <1>u, <1>r, <1>k DEF WindowInv, OnceInv, Taken
<1>9. QED BY <1>1, <1>2, <1>3, <1>4, <1>5, <1>6, <1>7, <1>8 DEF WindowInv, SeenInv

\* entraid: the id and the time kept are those of the newest event of the answer.
LEMMA LastIdFacts ==
  ASSUME WindowInv, pc = "page", kind.new = "notLast", Steady, ~conf.Ties
  PROVE \/ LastId = 0 /\ New = {} /\ \A e \in Events : ~Taken(e)
        \/ /\ LastId \in Events /\ created[LastId] # None /\ created[LastId] = LastDetectionTime
           /\ \A e \in Events : Taken(e) \/ e \in New => e <= LastId
<1>t. TypeOK BY DEF WindowInv
<1>k. kind.next = "lastNew"
  <2>1. conf \in Confs BY <1>t DEF TypeOK
  <2>2. QED BY <2>1, WindowConf DEF KindFacts
<1>n. New = {e \in Answer : e # lastId} BY DEF New
<1>a. Answer \subseteq Events /\ \A e \in Answer : created[e] # None BY AnswerFacts
<1>d. LastDetectionTime = IF New = {} THEN since ELSE created[Newest(New)] BY <1>k, LastDetectionFacts
<1>i. LastId = IF Answer = {} THEN 0 ELSE Newest(Answer) BY DEF LastId
<1>m. Answer # {} => Newest(Answer) \in Answer /\ \A f \in Answer : f <= Newest(Answer) BY <1>a, NewestFacts
<1>w. New # {} => Newest(New) \in New /\ \A f \in New : f <= Newest(New)
  <2>1. New \subseteq Events BY <1>n, <1>a
  <2>2. QED BY <2>1, NewestFacts
<1>l. \/ lastId = 0 /\ \A e \in Events : ~Taken(e)
      \/ /\ lastId \in Events /\ created[lastId] # None /\ created[lastId] = since
         /\ \A e \in Events : Taken(e) => e <= lastId
  BY DEF WindowInv, SeenInv, LastInv
<1>1. CASE lastId = 0
  <2>0. 0 \notin Events BY DEF Events
  <2>1. New = Answer BY <1>n, <1>a, <1>1, <2>0
  <2>2. \A e \in Events : ~Taken(e) BY <1>l, <1>1, <2>0
  <2>3. CASE Answer = {} BY <2>1, <2>2, <2>3, <1>i
  <2>4. CASE Answer # {}
    <3>1. LastId = Newest(Answer) /\ LastDetectionTime = created[Newest(Answer)] BY <2>1, <2>4, <1>i, <1>d
    <3>2. QED BY <3>1, <2>1, <2>2, <2>4, <1>m, <1>a
  <2>5. QED BY <2>3, <2>4
<1>2. CASE lastId # 0
  <2>1. lastId \in Answer /\ \A e \in Answer : lastId <= e BY <1>2, LastIsAsked
  <2>2. lastId \in Events /\ created[lastId] = since /\ \A e \in Events : Taken(e) => e <= lastId BY <1>l, <1>2
  <2> DEFINE x == Newest(Answer)
  <2>3. LastId = x /\ x \in Answer /\ x \in Events /\ \A f \in Answer : f <= x BY <2>1, <1>i, <1>m, <1>a
  <2> HIDE DEF x
  <2>4. created[x] = LastDetectionTime
    <3>1. CASE New = {}
      <4>1. x = lastId BY <3>1, <2>3, <1>n
      <4>2. QED BY <3>1, <4>1, <2>2, <1>d
    <3>2. CASE New # {}
      <4> DEFINE m == Newest(New)
      <4>1. m \in New /\ \A f \in New : f <= m BY <3>2, <1>w
      <4>2. LastDetectionTime = created[m] BY <3>2, <1>d
      <4> HIDE DEF m
      <4>3. m \in Answer /\ m # lastId /\ m \in Events BY <4>1, <1>n, <1>a
      <4>4. x # lastId BY <4>3, <2>1, <2>2, <2>3 DEF Events
      <4>5. x \in New BY <4>4, <2>3, <1>n
      <4>6. x = m BY <4>1, <4>3, <4>5, <2>3 DEF Events
      <4>7. QED BY <4>2, <4>6
    <3>3. QED BY <3>1, <3>2
  <2>5. \A e \in Events : Taken(e) \/ e \in New => e <= x
    <3> SUFFICES ASSUME NEW e \in Events, Taken(e) \/ e \in New PROVE e <= x OBVIOUS
    <3>1. lastId <= x BY <2>1, <2>3
    <3>2. CASE Taken(e) BY <3>1, <3>2, <2>2, <2>3 DEF Events
    <3>3. CASE e \in New BY <3>3, <1>n, <2>3
    <3>4. QED BY <3>2, <3>3
  <2>6. QED BY <2>3, <2>4, <2>5, <1>a
<1>3. QED BY <1>1, <1>2

\* The last page of a cycle: the entries that the dedupe map drops will not be asked for again.
LEMMA WindowGetLastPage == ASSUME WindowInv, GetLastPage PROVE WindowInv'
<1> USE WindowConstants
<1>t. TypeOK /\ StampInv BY DEF WindowInv
<1>u. UNCHANGED <<conf, now, created, deadline, start, until, fails, isStop, closer, shipped>> BY DEF GetLastPage
<1>k. KindFacts(kind) /\ kind' = kind /\ (ShipsOnce' <=> ShipsOnce) /\ (Steady' <=> Steady) /\ First' = First /\ First \in Int
  <2>1. conf \in Confs BY <1>t DEF TypeOK
  <2>2. QED BY <2>1, <1>u, KindStays, WindowConf
<1>r. /\ pc = "page" /\ items' = items \union New /\ dedupe' = Cull(Stamped)
      /\ since' = LastDetectionTime /\ last' = LastDetectionTime /\ lastId' = LastId
      /\ page' = 0 /\ pc' = "ship" /\ asked' = until
  BY DEF GetLastPage
<1>n. New \subseteq Events /\ Answer \subseteq Events /\ \A e \in New : created[e] # None BY AnswerFacts
<1>d. dedupe' \in [Events -> None .. MaxTime]
      /\ (\A e \in Events : dedupe'[e] # None => created[e] # None /\ created[e] <= dedupe'[e])
      /\ (kind.stamp # "none" =>
            \A e \in Events : (e \in New \/ dedupe[e] # None) /\ dedupe'[e] = None =>
              IF kind.from = "margin" THEN created[e] < start ELSE created[e] < now - kind.overlap)
  BY <1>r, StampedFacts
<1>l. last' \in 0 .. now \union {First} /\ since' = last' /\ (kind.next = "newest" => last <= last' /\ \A e \in New : created[e] <= last')
      /\ (kind.from = "margin" => since' = until)
  BY <1>r, LastDetectionFacts
<1>T. \A e \in Events : Taken(e)' <=> Taken(e) \/ e \in New BY <1>r, <1>u DEF Taken
<1>i. since \in Int /\ last \in Int /\ now \in Int /\ start \in Int /\ until \in 0 .. now /\ kind.overlap \in Nat
      /\ lastId \in 0 .. N /\ \A e \in Events : created[e] \in Int
  BY <1>t, <1>k DEF TypeOK, None, KindFacts
<1>1. TypeOK'
  <2>1. LastId \in 0 .. N
    <3>1. Answer # {} => Newest(Answer) \in Events BY <1>n, NewestFacts
    <3>2. QED BY <3>1, <1>i DEF LastId, Events
  <2>2. items' \subseteq Events BY <1>r, <1>n, <1>t DEF TypeOK
  <2>3. QED BY <1>r, <1>u, <1>k, <1>d, <1>l, <1>i, <2>1, <2>2, <1>t DEF TypeOK
<1>2. PublishedInOrder' BY <1>u DEF WindowInv, PublishedInOrder
<1>3. StampInv' BY <1>u, <1>d, <1>T, <1>n, <1>t DEF StampInv
<1>4. PageInv' /\ MarginInv' BY <1>l, <1>r, <1>u, <1>k DEF PageInv, MarginInv
<1>5. UnseenInv'
  <2> SUFFICES ASSUME kind.new = "unseen", NEW e \in Events, Taken(e) \/ e \in New, dedupe'[e] = None PROVE Gone(e)'
    BY <1>k, <1>T DEF UnseenInv
  <2>s. kind.stamp # "none" /\ kind.from \in {"margin", "overlap"} BY <1>k DEF KindFacts
  <2>g. Gone(e)' <=> IF kind.from = "margin" THEN created[e] < since' - kind.overlap ELSE created[e] < now - kind.overlap
    BY <1>k, <1>u, <1>r DEF Gone
  <2>m. kind.from = "margin" => start = since - kind.overlap /\ since <= since' BY <1>l, <1>r DEF WindowInv, MarginInv
  <2>i. since' \in Int BY <1>l, <1>i, <1>k
  <2>1. CASE e \in New \/ dedupe[e] # None
    <3>1. IF kind.from = "margin" THEN created[e] < start ELSE created[e] < now - kind.overlap BY <2>1, <2>s, <1>d
    <3>2. QED BY <3>1, <2>g, <2>m, <2>i, <1>i
  <2>2. CASE e \notin New /\ dedupe[e] = None
    <3>1. Gone(e) BY <2>2 DEF WindowInv, SeenInv, UnseenInv
    <3>2. QED BY <3>1, <2>g, <2>m, <2>i, <1>i DEF Gone
  <2>3. QED BY <2>1, <2>2
<1>6. LaterInv'
  <2> SUFFICES ASSUME kind.new = "unseenLater"
               PROVE \A e \in Events : Taken(e) \/ e \in New => created[e] <= last'
    BY <1>k, <1>T, <1>u, <1>l, <1>i DEF LaterInv
  <2>1. kind.next = "newest" /\ last' \in Int BY <1>k, <1>l, <1>i DEF KindFacts
  <2>2. \A e \in Events : Taken(e) => created[e] <= last BY DEF WindowInv, SeenInv, LaterInv
  <2>3. QED BY <2>1, <2>2, <1>l, <1>i
<1>7. LastInv'
  <2> SUFFICES ASSUME kind.new = "notLast", Steady, ~conf.Ties
               PROVE \/ lastId' = 0 /\ \A e \in Events : ~(Taken(e) \/ e \in New)
                     \/ /\ lastId' \in Events /\ created[lastId'] # None /\ created[lastId'] = since'
                        /\ \A e \in Events : Taken(e) \/ e \in New => e <= lastId'
    BY <1>k, <1>T, <1>u, <1>r DEF LastInv
  <2>1. QED BY <1>r, LastIdFacts
<1>8. OnceInv'
  <2>1. ShipsOnce => \A e \in New : ~Taken(e) BY <1>r, NewIsNotTaken
  <2>2. \A e \in Events : shipped[e] \in Nat BY <1>t DEF TypeOK
  <2>3. QED BY <2>1, <2>2, <1>u, <1>r, <1>k DEF WindowInv, OnceInv, Taken
<1>9. QED BY <1>1, <1>2, <1>3, <1>4, <1>5, <1>6, <1>7, <1>8 DEF WindowInv, SeenInv

\* A request fails: what the pages before it held is never shipped, and the dedupe map keeps it.
LEMMA WindowPageFails == ASSUME WindowInv, PageFails PROVE WindowInv'
<1> USE WindowConstants
<1>t. TypeOK /\ StampInv BY DEF WindowInv
<1>u. UNCHANGED <<conf, now, created, start, until, last, dedupe, page, closer, shipped, asked>> BY DEF PageFails
<1>k. KindFacts(kind) /\ kind' = kind /\ (ShipsOnce' <=> ShipsOnce) /\ (Steady' <=> Steady)
      /\ conf.MaxBusy \in Nat /\ conf.Fails \in Nat /\ First' = First /\ First \in Int
  <2>1. conf \in Confs BY <1>t DEF TypeOK
  <2>2. QED BY <2>1, <1>u, KindStays, WindowConf
<1>r. /\ pc = "page" /\ (fails > 0 \/ Rejected) /\ fails' = (IF Rejected THEN fails ELSE fails - 1) /\ items' = {}
      /\ since' = (IF kind.pages = "each" /\ page > 1 THEN until ELSE last) /\ lastId' = 0
      /\ pc' \in {"wait", "ended"} /\ deadline' = now + Interval
  BY DEF PageFails, Wait
<1>s. isStop' \in BOOLEAN BY <1>t, <1>k DEF PageFails, TypeOK, KindFacts
<1>i. /\ now \in 0 .. MaxTime /\ until \in 0 .. now /\ fails \in 0 .. conf.Fails
      /\ since \in Int /\ last \in Int /\ last \in 0 .. now \union {First}
  BY <1>t, <1>k DEF TypeOK
<1>T. \A e \in Events : Taken(e)' => Taken(e) BY <1>r, <1>u DEF Taken
<1>1. TypeOK'
  <2>1. fails' \in 0 .. conf.Fails /\ since' \in 0 .. now \union {First} /\ deadline' \in 0 .. MaxTime + Interval + conf.MaxBusy
    BY <1>r, <1>i, <1>k
  <2>2. QED BY <1>r, <1>s, <1>u, <1>k, <2>1, <1>t DEF TypeOK
<1>2. PublishedInOrder' BY <1>u DEF WindowInv, PublishedInOrder
<1>3. StampInv' BY <1>u, <1>T, <1>t DEF StampInv
<1>4. PageInv' /\ MarginInv' BY <1>r DEF PageInv, MarginInv
<1>5. UnseenInv'
  <2> SUFFICES ASSUME kind.new = "unseen", NEW e \in Events, Taken(e), dedupe[e] = None PROVE Gone(e)'
    BY <1>u, <1>k, <1>T DEF UnseenInv
  <2>1. Gone(e) BY DEF WindowInv, SeenInv, UnseenInv
  <2>2. kind.pages # "each" /\ (kind.from = "margin" => last = since) BY <1>k, <1>r DEF KindFacts, WindowInv, MarginInv
  <2>3. QED BY <2>1, <2>2, <1>r, <1>u, <1>k DEF Gone
<1>6. LaterInv'
  <2>1. kind.new = "unseenLater" => since' = last BY <1>r, <1>k DEF KindFacts
  <2>2. QED BY <2>1, <1>u, <1>k, <1>T, <1>i DEF WindowInv, SeenInv, LaterInv
<1>7. LastInv'
  <2> SUFFICES ASSUME kind.new = "notLast", Steady PROVE FALSE BY <1>k DEF LastInv
  <2>1. ~Rejected BY <1>k DEF Rejected, KindFacts
  <2>2. QED BY <2>1, <1>r, <1>i DEF Steady
<1>8. OnceInv' BY <1>u, <1>k, <1>r DEF WindowInv, OnceInv
<1>9. QED BY <1>1, <1>2, <1>3, <1>4, <1>5, <1>6, <1>7, <1>8 DEF WindowInv, SeenInv

\* An event is shipped.
LEMMA WindowShip == ASSUME WindowInv, NEW s \in Events, Ship(s) PROVE WindowInv'
<1> USE WindowConstants
<1>t. TypeOK /\ StampInv BY DEF WindowInv
<1>u. UNCHANGED <<conf, now, created, pc, deadline, since, lastId, start, until, last, dedupe, page, fails, isStop, closer, asked>>
  BY DEF Ship, windowVars
<1>k. kind' = kind /\ (ShipsOnce' <=> ShipsOnce) /\ (Steady' <=> Steady) /\ First' = First BY <1>u, KindStays
<1>r. pc = "ship" /\ s \in items /\ items' = items \ {s} /\ shipped' = [shipped EXCEPT ![s] = IF @ = 2 THEN 2 ELSE @ + 1]
  BY DEF Ship
<1>s. /\ shipped \in [Events -> 0 .. 2] /\ shipped' \in [Events -> 0 .. 2] /\ shipped'[s] > 0
      /\ shipped[s] = 0 => shipped'[s] = 1
      /\ \A e \in Events : e # s => shipped'[e] = shipped[e]
  <2>1. shipped \in [Events -> 0 .. 2] BY <1>t DEF TypeOK
  <2>2. QED BY <1>r, <2>1
<1>T. \A e \in Events : Taken(e)' <=> Taken(e) BY <1>r, <1>s DEF Taken
<1>1. TypeOK' BY <1>r, <1>u, <1>k, <1>s, <1>t DEF TypeOK
<1>2. PublishedInOrder' BY <1>u DEF WindowInv, PublishedInOrder
<1>3. StampInv' BY <1>u, <1>T, <1>t DEF StampInv
<1>4. PageInv' /\ MarginInv' BY <1>u, <1>k DEF WindowInv, PageInv, MarginInv
<1>5. UnseenInv' BY <1>u, <1>k, <1>T DEF WindowInv, SeenInv, UnseenInv, Gone
<1>6. LaterInv' /\ LastInv' BY <1>u, <1>k, <1>T DEF WindowInv, SeenInv, LaterInv, LastInv
<1>7. OnceInv' BY <1>r, <1>s, <1>k DEF WindowInv, OnceInv
<1>8. QED BY <1>1, <1>2, <1>3, <1>4, <1>5, <1>6, <1>7 DEF WindowInv, SeenInv

\* The cycle ends.
LEMMA WindowShippedAll == ASSUME WindowInv, ShippedAll PROVE WindowInv'
<1> USE WindowConstants
<1>t. TypeOK /\ StampInv BY DEF WindowInv
<1>u. UNCHANGED <<conf, now, created, lastId, start, until, last, dedupe, page, items, fails, isStop, closer, shipped, asked>>
  BY DEF ShippedAll
<1>k. KindFacts(kind) /\ kind' = kind /\ (ShipsOnce' <=> ShipsOnce) /\ (Steady' <=> Steady) /\ conf.MaxBusy \in Nat
      /\ First' = First /\ First \in Int
  <2>1. conf \in Confs BY <1>t DEF TypeOK
  <2>2. QED BY <2>1, <1>u, KindStays, WindowConf
<1>r. pc = "ship" /\ items = {} /\ since' = Checkpoint /\ pc' \in {"wait", "ended"} /\ deadline' = now + Interval
  BY DEF ShippedAll, Wait
<1>i. since \in Int /\ since \in 0 .. now \union {First} /\ now \in 0 .. MaxTime /\ until \in 0 .. now BY <1>t, <1>k DEF TypeOK
<1>c. /\ since' \in 0 .. now \union {First}
      /\ kind.new \in {"unseenLater", "notLast"} => since' = since
      /\ kind.from = "margin" => since' = since
  <2>1. since' \in 0 .. now \union {First} BY <1>r, <1>i DEF Checkpoint
  <2>2. kind.new \in {"unseenLater", "notLast"} => since' = since BY <1>r, <1>k DEF Checkpoint, KindFacts
  <2>3. kind.from = "margin" => since' = since BY <1>r, <1>k DEF Checkpoint, KindFacts, WindowInv, MarginInv
  <2>4. QED BY <2>1, <2>2, <2>3
<1>T. \A e \in Events : Taken(e)' <=> Taken(e) BY <1>u DEF Taken
<1>1. TypeOK'
  <2>1. deadline' \in 0 .. MaxTime + Interval + conf.MaxBusy BY <1>r, <1>i, <1>k
  <2>2. QED BY <1>r, <1>u, <1>k, <1>c, <2>1, <1>t DEF TypeOK
<1>2. PublishedInOrder' BY <1>u DEF WindowInv, PublishedInOrder
<1>3. StampInv' BY <1>u, <1>T, <1>t DEF StampInv
<1>4. PageInv' /\ MarginInv' BY <1>r DEF PageInv, MarginInv
<1>5. UnseenInv'
  <2>1. \A e \in Events : Gone(e) => Gone(e)' BY <1>u, <1>k, <1>c, <1>r DEF Gone
  <2>2. QED BY <2>1, <1>u, <1>k, <1>T DEF WindowInv, SeenInv, UnseenInv
<1>6. LaterInv' BY <1>u, <1>k, <1>T, <1>c, <1>r DEF WindowInv, SeenInv, LaterInv
<1>7. LastInv' BY <1>u, <1>k, <1>T, <1>c, <1>r DEF WindowInv, SeenInv, LastInv
<1>8. OnceInv' BY <1>u, <1>k DEF WindowInv, OnceInv
<1>9. QED BY <1>1, <1>2, <1>3, <1>4, <1>5, <1>6, <1>7, <1>8 DEF WindowInv, SeenInv

\* Every step of a window poller keeps the invariant.
LEMMA WindowStep == ASSUME WindowInv, Next PROVE WindowInv'
<1>t. isStop \in BOOLEAN /\ closer \in {"no", "wait", "closed"} BY DEF WindowInv, TypeOK
<1>1. CASE WaitStopped \/ ShipFails \/ ShippedPage \/ CloseStop \/ CloseWait \/ Stopped
  <2>1. UNCHANGED <<conf, now, created, deadline, since, lastId, start, until, last, dedupe, page, items, fails, shipped,
                    asked>>
    BY <1>1 DEF WaitStopped, ShipFails, ShippedPage, CloseStop, CloseWait, Stopped, windowVars, vars
  <2>2. isStop' \in BOOLEAN
    BY <1>1, <1>t DEF WaitStopped, ShipFails, ShippedPage, CloseStop, CloseWait, Stopped, windowVars, vars
  <2>3. closer' \in {"no", "wait", "closed"}
    BY <1>1, <1>t DEF WaitStopped, ShipFails, ShippedPage, CloseStop, CloseWait, Stopped, windowVars, vars
  <2>4. pc' = pc \/ (pc # "page" /\ pc' = "ended") \/ (pc = "ship" /\ page > 0 /\ pc' = "page")
    BY <1>1 DEF WaitStopped, ShipFails, ShippedPage, CloseStop, CloseWait, Stopped, windowVars, vars
  <2>5. QED BY <2>1, <2>2, <2>3, <2>4, WindowQuiet
<1>2. CASE Cycle
  BY <1>1, <1>2, WindowRequest, WindowGetPage, WindowGetLastPage, WindowPageFails, WindowShip, WindowShippedAll DEF Cycle
<1>3. QED BY <1>1, <1>2, WindowTick, WindowPublish DEF Next

-----------------------------------------------------------------------------
(***************************************************************************)
(* The cursor pollers.                                                     *)
(***************************************************************************)
\* The types of the constants of the cursor pollers, which have the events of the window pollers.
LEMMA CursorConstants ==
  /\ N \in Nat /\ CursorTime \in Nat /\ Interval \in Nat /\ BoxWindow \in Nat /\ BoxKeeps \in Nat
  /\ C!Events = Events /\ C!None = None
BY PollersAssumption, CursorAssumption DEF C!Events, Events, C!None, None

\* What the records say of the adapters, as far as it matters here.
CursorKindFacts(a, k) ==
  /\ k.from \in {"now", "interval", "window", "since", "after"}
  /\ k.cursor \in {"always", "more", "full", "never"} /\ k.keep \in {"none", "newest", "lastPlus", "first"}
  /\ k.zero \in BOOLEAN /\ k.pages \in BOOLEAN /\ k.dedupe \in BOOLEAN /\ k.first \in BOOLEAN
  /\ k.zero => a = "box"
  /\ k.first => a \in {"box", "duo"}
  /\ k.dedupe <=> a = "box"
  /\ k.pages <=> a = "slack"
  /\ k.from = "after" <=> a = "wiz"
  /\ a \in {"onepassword", "sophosBool", "box"} => k.cursor = "always"
  /\ a = "box" => k.from = "window" /\ k.keep = "none"
  /\ a = "slack" => k.from = "since" /\ k.cursor = "more" /\ k.keep = "newest"
  /\ a = "duo" => k.from = "since" /\ k.keep = "lastPlus"
  /\ a = "wiz" => k.keep = "first"

\* Every adapter of the cursor pollers is one of these kinds.
LEMMA CursorKindsAreThese == \A a \in C!Adapters : CursorKindFacts(a, C!Kind[a])
<1> USE DEF CursorKindFacts, C!OnePassword, C!ITGlue
<1>1. CursorKindFacts("onepassword", C!OnePassword) OBVIOUS
<1>2. CursorKindFacts("itglue", C!ITGlue) OBVIOUS
<1>3. CursorKindFacts("sophos", C!SophosString) BY DEF C!SophosString
<1>4. CursorKindFacts("sophosBool", C!SophosBoolean) BY DEF C!SophosBoolean
<1>5. CursorKindFacts("box", C!Box) BY DEF C!Box
<1>6. CursorKindFacts("slack", C!Slack) BY DEF C!Slack
<1>7. CursorKindFacts("duo", C!Duo) BY DEF C!Duo
<1>8. CursorKindFacts("wiz", C!Wiz) BY DEF C!Wiz
<1> HIDE DEF CursorKindFacts, C!OnePassword, C!ITGlue
<1>9. \A a \in C!Adapters :
        \/ a = "onepassword" /\ C!Kind[a] = C!OnePassword
        \/ a = "itglue" /\ C!Kind[a] = C!ITGlue
        \/ a = "sophos" /\ C!Kind[a] = C!SophosString
        \/ a = "sophosBool" /\ C!Kind[a] = C!SophosBoolean
        \/ a = "box" /\ C!Kind[a] = C!Box
        \/ a = "slack" /\ C!Kind[a] = C!Slack
        \/ a = "duo" /\ C!Kind[a] = C!Duo
        \/ a = "wiz" /\ C!Kind[a] = C!Wiz
  BY DEF C!Adapters, C!Kind
<1>10. QED BY <1>1, <1>2, <1>3, <1>4, <1>5, <1>6, <1>7, <1>8, <1>9

\* What a situation of a cursor poller is made of.
LEMMA CursorConf ==
  ASSUME conf \in CursorConfs
  PROVE /\ conf.PageSize \in Nat \ {0} /\ conf.Fails \in Nat /\ conf.MaxBusy \in Nat
        /\ CursorKindFacts(conf.adapter, C!kind)
<1>1. C!IsConf(conf) BY CursorAssumption
<1>2. conf.adapter \in C!Adapters /\ conf.PageSize \in Nat \ {0} /\ conf.Fails \in Nat /\ conf.MaxBusy \in Nat
      /\ conf.kind = C!Kind[conf.adapter]
  BY <1>1 DEF C!IsConf
<1>3. QED BY <1>2, CursorKindsAreThese DEF C!kind

\* The kind of the adapter, and what is claimed of it, never change.
LEMMA CursorKindStays ==
  ASSUME conf' = conf PROVE C!kind' = C!kind /\ (C!ShipsOnce' <=> C!ShipsOnce)
BY DEF C!kind, C!ShipsOnce, C!OnePage

-----------------------------------------------------------------------------
\* An entry of the dedupe map has the time of its event; nothing is left to ship when a
\* cycle begins, and nothing has been taken before the first request.
KeptInv ==
  /\ \A e \in Events : dedupe[e] # None => dedupe[e] = created[e]
  /\ \A e \in Events : Taken(e) => created[e] # None
  /\ pc \in {"first", "wait", "request"} => items = {}
  /\ pc = "first" => conf.adapter \in {"box", "duo"} /\ \A e \in Events : ~Taken(e)
  /\ processed /\ pc \in {"request", "ship"} => conf.adapter = "slack" /\ since <= now

UptoCursor(e) == e = cursor \/ C!Before(e, cursor)

\* 1password and sophos: what was taken lies at the cursor or before it.
StreamInv ==
  conf.adapter \in {"onepassword", "sophosBool"} =>
    \A e \in Events : Taken(e) => cursor > 0 /\ UptoCursor(e)

\* box: without a position the dedupe map tells what was taken, as far as the window shows it.
BoxInv ==
  conf.adapter = "box" /\ C!ShipsOnce =>
    \A e \in Events : Taken(e) =>
      /\ cursor # 0 /\ (cursor > 0 => e <= cursor)
      /\ dedupe[e] # None \/ created[e] < now - BoxKeeps

\* slack: what was taken lies before the time kept, or in a page of this cycle and then at
\* the cursor or before it.
SlackInv ==
  conf.adapter = "slack" =>
    /\ pc \in {"wait", "request"} /\ cursor = None => ~processed \/ pc = "wait"
    /\ pc = "wait" => cursor = None
    /\ cursor = None \/ cursor \in Events
    /\ \A e \in Events : Taken(e) =>
         \/ created[e] < since
         \/ pc # "wait" /\ processed /\ created[e] = since /\ (cursor # None => UptoCursor(e))

\* duo and wiz: the time kept is after what was taken, or that of its newest event.
DuoInv == conf.adapter = "duo" /\ ~conf.Descending => \A e \in Events : Taken(e) => created[e] < since
WizInv == conf.adapter = "wiz" /\ conf.Descending => \A e \in Events : Taken(e) => created[e] <= since

CursorOnce == C!ShipsOnce => \A e \in Events : shipped[e] < 2 /\ (e \in items => shipped[e] = 0)

CursorSeen == StreamInv /\ BoxInv /\ SlackInv /\ DuoInv /\ WizInv

CursorInv == C!TypeOK /\ PublishedInOrder /\ KeptInv /\ CursorSeen /\ CursorOnce

\* The first state of a cursor poller.
LEMMA CursorInit == C!Init => CursorInv
<1> SUFFICES ASSUME C!Init PROVE CursorInv OBVIOUS
<1> USE CursorConstants
<1>c. conf \in CursorConfs BY DEF C!Init
<1>k. CursorKindFacts(conf.adapter, C!kind) /\ conf.Fails \in Nat /\ conf.MaxBusy \in Nat BY <1>c, CursorConf
<1>1. C!TypeOK
  <2>1. created \in [Events -> None .. CursorTime] /\ dedupe \in [Events -> None .. CursorTime] /\ shipped \in [Events -> 0 .. 2]
    BY DEF C!Init, None
  <2>2. deadline \in 0 .. CursorTime + Interval + conf.MaxBusy /\ fails \in 0 .. conf.Fails BY <1>k DEF C!Init
  <2>3. isStop \in BOOLEAN /\ processed \in BOOLEAN BY DEF C!Init
  <2>4. cursor \in None .. N /\ begun \in None .. now /\ drained \in None .. now BY DEF C!Init, None
  <2>5. QED BY <1>c, <2>1, <2>2, <2>3, <2>4 DEF C!Init, C!TypeOK
<1>2. \A e \in Events : created[e] = None /\ dedupe[e] = None /\ shipped[e] = 0 /\ ~Taken(e)
  BY DEF C!Init, Taken
<1>3. now = 0 /\ pc \in {"first", "wait"} /\ ~processed /\ items = {} /\ cursor = None BY DEF C!Init
<1>4. PublishedInOrder BY <1>2, <1>3 DEF PublishedInOrder, None
<1>5. KeptInv
  <2>1. pc = "first" => conf.adapter \in {"box", "duo"} BY <1>k DEF C!Init, CursorKindFacts
  <2>2. QED BY <1>2, <1>3, <2>1 DEF KeptInv
<1>6. CursorSeen BY <1>2, <1>3 DEF CursorSeen, StreamInv, BoxInv, SlackInv, DuoInv, WizInv
<1>7. CursorOnce BY <1>2, <1>3 DEF CursorOnce
<1>8. QED BY <1>1, <1>4, <1>5, <1>6, <1>7 DEF CursorInv

\* The clock.
LEMMA CursorTick == ASSUME CursorInv, C!Tick PROVE CursorInv'
<1> USE CursorConstants
<1>t. C!TypeOK /\ PublishedInOrder BY DEF CursorInv
<1>u. UNCHANGED <<conf, created, pc, deadline, cursor, since, lastId, processed, dedupe, items, fails, isStop, closer,
                  shipped, begun, drained>>
  BY DEF C!Tick, C!keptVars, C!historyVars
<1>n. now \in Nat /\ now' = now + 1 /\ now' \in 0 .. CursorTime BY <1>t DEF C!Tick, C!TypeOK
<1>k. C!kind' = C!kind /\ (C!ShipsOnce' <=> C!ShipsOnce) BY <1>u, CursorKindStays
<1>c. \A e \in Events : created[e] \in Int /\ created[e] <= now BY <1>t DEF PublishedInOrder, C!TypeOK, None
<1>i. since \in 0 .. now + 1 /\ begun \in None .. now /\ drained \in None .. now BY <1>t DEF C!TypeOK
<1>1. C!TypeOK'
  <2>1. since \in 0 .. now' + 1 /\ begun \in None .. now' /\ drained \in None .. now' BY <1>n, <1>i DEF None
  <2>2. QED BY <1>n, <1>u, <1>t, <2>1 DEF C!TypeOK
<1>2. PublishedInOrder' BY <1>n, <1>u, <1>c, <1>t DEF PublishedInOrder
<1>3. KeptInv' BY <1>u, <1>n, <1>i DEF CursorInv, KeptInv, Taken
<1>4. BoxInv' BY <1>u, <1>k, <1>c, <1>n DEF CursorInv, CursorSeen, BoxInv, Taken
<1>5. StreamInv' /\ SlackInv' /\ DuoInv' /\ WizInv' /\ CursorOnce'
  BY <1>u, <1>k DEF CursorInv, CursorSeen, StreamInv, SlackInv, DuoInv, WizInv, CursorOnce, Taken, UptoCursor, C!Before
<1>6. QED BY <1>1, <1>2, <1>3, <1>4, <1>5 DEF CursorInv, CursorSeen

\* An event is published: one that nobody has taken.
LEMMA CursorPublish == ASSUME CursorInv, NEW p \in Events, C!Publish(p) PROVE CursorInv'
<1> USE CursorConstants
<1>t. C!TypeOK /\ PublishedInOrder /\ KeptInv BY DEF CursorInv
<1>u. UNCHANGED <<conf, now, pc, deadline, cursor, since, lastId, processed, dedupe, items, fails, isStop, closer,
                  shipped, begun, drained>>
  BY DEF C!Publish, C!keptVars, C!historyVars
<1>n. now \in 0 .. CursorTime /\ created \in [Events -> None .. CursorTime] BY <1>t DEF C!TypeOK
<1>k. C!kind' = C!kind /\ (C!ShipsOnce' <=> C!ShipsOnce) BY <1>u, CursorKindStays
<1>c. created[p] = None /\ created' = [created EXCEPT ![p] = now] BY DEF C!Publish, C!Published
<1>d. created' \in [Events -> None .. CursorTime] /\ created'[p] = now /\ \A e \in Events : e # p => created'[e] = created[e]
  BY <1>c, <1>n DEF None
<1>1. C!TypeOK' BY <1>u, <1>d, <1>t DEF C!TypeOK
<1>2. PublishedInOrder'
  <2> SUFFICES ASSUME NEW e \in Events
               PROVE /\ created'[e] <= now
                     /\ \A f \in Events : f < e /\ created'[e] # None =>
                          created'[f] # None /\ created'[f] <= created'[e] /\ (~conf.Ties => created'[f] < created'[e])
    BY <1>u DEF PublishedInOrder
  <2>1. created'[e] <= now BY <1>d, <1>n, <1>t DEF PublishedInOrder
  <2> SUFFICES ASSUME NEW f \in Events, f < e, created'[e] # None
               PROVE created'[f] # None /\ created'[f] <= created'[e] /\ (~conf.Ties => created'[f] < created'[e])
    BY <2>1
  <2>2. CASE e = p
    <3>i. p \in Nat /\ f \in Nat /\ p > 1 BY <2>2 DEF Events
    <3>1. created[p - 1] # None /\ (created[p - 1] < now \/ conf.Ties) /\ p - 1 \in Events /\ created[p - 1] <= now
      BY <3>i, <1>t DEF C!Publish, Events, PublishedInOrder
    <3>2. CASE f = p - 1 BY <3>2, <3>1, <2>2, <1>d
    <3>3. CASE f # p - 1
      <4>1. f < p - 1 /\ f # p BY <3>3, <3>i, <2>2
      <4>2. created[f] # None /\ created[f] <= created[p - 1] BY <4>1, <3>1, <1>t DEF PublishedInOrder
      <4>3. created[f] \in Int /\ created[p - 1] \in Int BY <1>n, <3>1 DEF None
      <4>4. ~conf.Ties => created[f] < now BY <4>2, <4>3, <3>1, <1>n
      <4>5. QED BY <4>1, <4>2, <4>3, <4>4, <3>1, <2>2, <1>d, <1>n
    <3>4. QED BY <3>2, <3>3
  <2>3. CASE e # p
    <3>1. created[e] # None BY <2>3, <1>d
    <3>2. created[f] # None /\ created[f] <= created[e] /\ (~conf.Ties => created[f] < created[e])
      BY <3>1, <1>t DEF PublishedInOrder
    <3>3. f # p BY <3>2, <1>c
    <3>4. QED BY <2>3, <3>2, <3>3, <1>d
  <2>4. QED BY <2>2, <2>3
<1>s. \A e \in Events : created[e] # None => created'[e] = created[e] BY <1>c, <1>d
<1>T. \A e \in Events : (Taken(e)' <=> Taken(e)) /\ (Taken(e) => created'[e] = created[e]) /\ (UptoCursor(e)' <=> UptoCursor(e))
  BY <1>u, <1>s, <1>t DEF Taken, KeptInv, UptoCursor, C!Before
<1>3. KeptInv' BY <1>u, <1>s, <1>T, <1>t DEF KeptInv
<1>4. StreamInv' /\ BoxInv' BY <1>u, <1>k, <1>T DEF CursorInv, CursorSeen, StreamInv, BoxInv
<1>5. SlackInv' /\ DuoInv' /\ WizInv' BY <1>u, <1>T DEF CursorInv, CursorSeen, SlackInv, DuoInv, WizInv
<1>6. CursorOnce' BY <1>u, <1>k DEF CursorInv, CursorOnce
<1>7. QED BY <1>1, <1>2, <1>3, <1>4, <1>5, <1>6 DEF CursorInv, CursorSeen

-----------------------------------------------------------------------------
\* What the API answers: published events that were asked for and lie after the cursor.
LEMMA CursorAnswer ==
  ASSUME CursorInv
  PROVE /\ C!New \subseteq C!Answer /\ C!Answer \subseteq C!Matching /\ C!Matching \subseteq Events
        /\ \A e \in C!Matching : /\ created[e] # None /\ created[e] \in 0 .. now /\ C!Asked(e)
                                 /\ cursor > 0 => C!Before(cursor, e)
<1> USE CursorConstants
<1>t. C!TypeOK /\ PublishedInOrder BY DEF CursorInv
<1>1. C!New \subseteq C!Answer /\ C!Answer \subseteq C!Matching /\ C!Matching \subseteq C!Published /\ C!Published \subseteq Events
  BY DEF C!New, C!Answer, C!Matching, C!Published
<1>2. \A e \in C!Matching : e \in Events /\ created[e] # None /\ C!Asked(e) /\ (cursor > 0 => C!Before(cursor, e))
  BY DEF C!Matching, C!Published
<1>3. \A e \in Events : created[e] \in None .. CursorTime /\ created[e] <= now /\ now \in Nat
  BY <1>t DEF PublishedInOrder, C!TypeOK
<1>4. QED BY <1>1, <1>2, <1>3 DEF None

\* A set of events has a first and a last one, in the order in which the API answers.
LEMMA EndsExist ==
  ASSUME NEW E, E \subseteq Events, E # {}
  PROVE /\ C!FirstOf(E) \in E /\ \A f \in E : f = C!FirstOf(E) \/ C!Before(C!FirstOf(E), f)
        /\ C!LastOf(E) \in E /\ \A f \in E : f = C!LastOf(E) \/ C!Before(f, C!LastOf(E))
<1> USE CursorConstants
<1>e. \A x, y \in E : x \in Nat /\ y \in Nat BY DEF Events
<1>1. PICK x \in E : \A y \in E : x <= y
  <2>1. E \subseteq Nat BY <1>e
  <2>2. QED BY <2>1, LeastExists
<1>2. PICK z \in E : \A y \in E : y <= z BY LargestExists DEF Events
<1>3. CASE conf.Descending
  <2>1. \A f \in E : f = z \/ C!Before(z, f) BY <1>2, <1>3, <1>e DEF C!Before
  <2>2. \A f \in E : f = x \/ C!Before(f, x) BY <1>1, <1>3, <1>e DEF C!Before
  <2>3. QED BY <2>1, <2>2, Zenon DEF C!FirstOf, C!LastOf
<1>4. CASE ~conf.Descending
  <2>1. \A f \in E : f = x \/ C!Before(x, f) BY <1>1, <1>4, <1>e DEF C!Before
  <2>2. \A f \in E : f = z \/ C!Before(f, z) BY <1>2, <1>4, <1>e DEF C!Before
  <2>3. QED BY <2>1, <2>2, Zenon DEF C!FirstOf, C!LastOf
<1>5. QED BY <1>3, <1>4

\* An answer is empty only if nothing matches; one page that holds all events leaves nothing.
LEMMA AnswerSize ==
  ASSUME CursorInv
  PROVE /\ C!Matching # {} => C!Answer # {}
        /\ C!OnePage => C!Answer = C!Matching
<1> USE CursorConstants
<1>c. conf.PageSize \in Nat \ {0}
  <2>1. conf \in CursorConfs BY DEF CursorInv, C!TypeOK
  <2>2. QED BY <2>1, CursorConf
<1>m. C!Matching \subseteq Events BY CursorAnswer
<1>1. C!Matching # {} => C!Answer # {}
  <2> SUFFICES ASSUME C!Matching # {} PROVE C!Answer # {} OBVIOUS
  <2> DEFINE x == C!FirstOf(C!Matching)
  <2>1. x \in C!Matching /\ \A f \in C!Matching : f = x \/ C!Before(x, f) BY <1>m, EndsExist
  <2> HIDE DEF x
  <2>2. x \in Nat /\ \A f \in C!Matching : f \in Nat BY <1>m, <2>1 DEF Events
  <2>3. {f \in C!Matching : C!Before(f, x)} = {}
    <3>1. \A f \in C!Matching : ~C!Before(f, x) BY <2>1, <2>2 DEF C!Before
    <3>2. QED BY <3>1
  <2>4. Cardinality({}) = 0 BY FS_EmptySet
  <2>5. C!Cardinality({}) = 0 BY <2>4 DEF C!Cardinality, Cardinality
  <2>6. x \in C!Answer BY <2>1, <2>3, <2>5, <1>c DEF C!Answer
  <2>7. QED BY <2>6
<1>2. C!OnePage => C!Answer = C!Matching
  <2> SUFFICES ASSUME C!OnePage, NEW e \in C!Matching PROVE e \in C!Answer BY CursorAnswer
  <2> DEFINE B == {f \in C!Matching : C!Before(f, e)}
  <2>1. B \in SUBSET Events BY <1>m
  <2> HIDE DEF B
  <2>2. IsFiniteSet(Events) /\ Cardinality(Events) = N BY FS_Interval DEF Events
  <2>3. Cardinality(B) <= N /\ Cardinality(B) \in Nat BY <2>1, <2>2, FS_Subset, FS_CardinalityType
  <2>4. C!Cardinality(B) = Cardinality(B) BY DEF C!Cardinality, Cardinality
  <2>5. Cardinality(B) < conf.PageSize BY <2>3, <1>c DEF C!OnePage
  <2>6. QED BY <2>4, <2>5 DEF B, C!Answer
<1>3. QED BY <1>1, <1>2

\* The number of published events: the number of the last one.
LEMMA PublishedCount ==
  ASSUME CursorInv
  PROVE C!Cardinality(C!Published) \in 0 .. N /\ \A e \in C!Published : e <= C!Cardinality(C!Published)
<1> USE CursorConstants
<1>1. IsFiniteSet(Events) /\ Cardinality(Events) = N BY FS_Interval DEF Events
<1>2. C!Published \in SUBSET Events BY DEF C!Published
<1>3. IsFiniteSet(C!Published) /\ Cardinality(C!Published) <= N /\ Cardinality(C!Published) \in Nat
  BY <1>1, <1>2, FS_Subset, FS_CardinalityType
<1>4. \A e \in C!Published : e <= Cardinality(C!Published)
  <2> TAKE e \in C!Published
  <2>1. e \in Events /\ e \in Nat /\ created[e] # None BY DEF C!Published, Events
  <2>2. \A f \in 1 .. e : f \in C!Published
    <3> TAKE f \in 1 .. e
    <3>1. f \in Events BY <2>1 DEF Events
    <3>2. created[f] # None
      <4>1. CASE f = e BY <4>1, <2>1
      <4>2. CASE f < e BY <4>2, <3>1, <2>1 DEF CursorInv, PublishedInOrder
      <4>3. QED BY <4>1, <4>2, <2>1
    <3>3. QED BY <3>1, <3>2 DEF C!Published
  <2>3. (1 .. e) \in SUBSET C!Published BY <2>2
  <2>4. Cardinality(1 .. e) = e
    <3>1. e >= 1 BY <2>1 DEF Events
    <3>2. QED BY <2>1, <3>1, FS_Interval
  <2>5. Cardinality(1 .. e) <= Cardinality(C!Published) BY <2>3, <1>3, FS_Subset
  <2>6. QED BY <2>4, <2>5
<1>5. C!Cardinality(C!Published) = Cardinality(C!Published) BY DEF C!Cardinality, Cardinality
<1>6. QED BY <1>3, <1>4, <1>5

\* The newest of the times kept is that of one of the new events.
LEMMA KeptTimeFacts ==
  ASSUME CursorInv
  PROVE /\ C!New = {} => C!KeptTime = since
        /\ C!New # {} /\ C!kind.keep = "none" => C!KeptTime = since
        /\ C!New # {} /\ C!kind.keep = "newest" => \E m \in C!New : C!KeptTime = created[m] /\ \A e \in C!New : created[e] <= created[m]
        /\ C!New # {} /\ C!kind.keep = "lastPlus" => C!KeptTime = created[C!LastOf(C!New)] + 1
        /\ C!New # {} /\ C!kind.keep = "first" =>
             C!KeptTime = IF C!FirstOf(C!Answer) \in C!New THEN created[C!FirstOf(C!Answer)] ELSE since
        /\ C!KeptTime \in 0 .. now + 1
<1> USE CursorConstants
<1>t. C!TypeOK /\ PublishedInOrder BY DEF CursorInv
<1>k. C!kind.keep \in {"none", "newest", "lastPlus", "first"}
  <2>1. conf \in CursorConfs BY <1>t DEF C!TypeOK
  <2>2. QED BY <2>1, CursorConf DEF CursorKindFacts
<1>a. C!New \subseteq C!Answer /\ C!New \subseteq Events /\ C!Answer \subseteq Events BY CursorAnswer
<1>n. \A e \in C!New : created[e] \in 0 .. now /\ created[e] # None BY CursorAnswer
<1>s. since \in 0 .. now + 1 /\ now \in Nat BY <1>t DEF C!TypeOK
<1>1. C!New = {} => C!KeptTime = since BY DEF C!KeptTime
<1>2. C!New # {} /\ C!kind.keep = "none" => C!KeptTime = since BY DEF C!KeptTime
<1>3. ASSUME C!New # {}, C!kind.keep = "newest"
      PROVE \E m \in C!New : C!KeptTime = created[m] /\ \A e \in C!New : created[e] <= created[m]
  <2>1. PICK m \in C!New : \A y \in C!New : y <= m BY <1>3, <1>a, LargestExists DEF Events
  <2>2. \A e \in C!New : created[e] <= created[m]
    <3> TAKE e \in C!New
    <3>1. e \in Events /\ m \in Events /\ e <= m /\ e \in Nat /\ m \in Nat BY <1>a, <2>1 DEF Events
    <3>2. CASE e = m BY <3>2, <1>n
    <3>3. CASE e < m BY <3>1, <3>3, <1>n, <1>t DEF PublishedInOrder
    <3>4. QED BY <3>1, <3>2, <3>3
  <2> DEFINE T == {created[e] : e \in C!New}
  <2>3. created[m] \in T BY <2>1
  <2>4. C!KeptTime = CHOOSE t \in T : \A e \in C!New : created[e] <= t BY <1>3 DEF C!KeptTime
  <2>5. C!KeptTime \in T /\ \A e \in C!New : created[e] <= C!KeptTime BY <2>2, <2>3, <2>4
  <2>6. PICK x \in C!New : C!KeptTime = created[x] BY <2>5
  <2>7. QED BY <2>5, <2>6
<1>4. C!New # {} /\ C!kind.keep = "lastPlus" => C!KeptTime = created[C!LastOf(C!New)] + 1 BY DEF C!KeptTime
<1>5. C!New # {} /\ C!kind.keep = "first" =>
        C!KeptTime = IF C!FirstOf(C!Answer) \in C!New THEN created[C!FirstOf(C!Answer)] ELSE since
  BY DEF C!KeptTime
<1>6. C!KeptTime \in 0 .. now + 1
  <2>1. C!New # {} => C!LastOf(C!New) \in C!New BY <1>a, EndsExist
  <2>2. CASE C!New = {} BY <2>2, <1>1, <1>s
  <2>3. CASE C!New # {} /\ C!kind.keep = "none" BY <2>3, <1>2, <1>s
  <2>4. CASE C!New # {} /\ C!kind.keep = "newest" BY <2>4, <1>3, <1>n, <1>s
  <2>5. CASE C!New # {} /\ C!kind.keep = "lastPlus"
    <3>1. created[C!LastOf(C!New)] \in 0 .. now BY <2>5, <2>1, <1>n
    <3>2. QED BY <3>1, <2>5, <1>4, <1>s
  <2>6. CASE C!New # {} /\ C!kind.keep = "first"
    <3>1. C!FirstOf(C!Answer) \in C!New => created[C!FirstOf(C!Answer)] \in 0 .. now BY <1>n
    <3>2. QED BY <3>1, <2>6, <1>5, <1>s
  <2>7. QED BY <1>k, <2>2, <2>3, <2>4, <2>5, <2>6
<1>7. QED BY <1>1, <1>2, <1>3, <1>4, <1>5, <1>6

\* The cursor of an answer that has events stands for the last of them.
LEMMA PositionFacts ==
  ASSUME CursorInv
  PROVE /\ C!Position \in None .. N /\ C!NextCursor \in None .. N
        /\ C!NextCursor # None => C!NextCursor = C!Position
        /\ C!kind.cursor = "always" => C!NextCursor = C!Position
        /\ C!Answer # {} => C!Position = C!LastOf(C!Answer) /\ C!Position \in C!Answer
        /\ C!Answer = {} /\ cursor # None => C!Position = cursor
        /\ C!Answer = {} /\ cursor = None => C!Position = C!Cardinality(C!Published)
        /\ C!Answer = {} /\ C!kind.cursor = "more" => C!NextCursor = None
<1> USE CursorConstants
<1>t. C!TypeOK BY DEF CursorInv
<1>k. C!kind.cursor \in {"always", "more", "full", "never"}
  <2>1. conf \in CursorConfs BY <1>t DEF C!TypeOK
  <2>2. QED BY <2>1, CursorConf DEF CursorKindFacts
<1>c. cursor \in None .. N BY <1>t DEF C!TypeOK
<1>a. C!Answer \subseteq Events BY CursorAnswer
<1>1. C!Answer # {} => C!Position = C!LastOf(C!Answer) /\ C!Position \in C!Answer BY <1>a, EndsExist DEF C!Position
<1>2. C!Answer = {} /\ cursor # None => C!Position = cursor BY DEF C!Position
<1>3. C!Answer = {} /\ cursor = None => C!Position = C!Cardinality(C!Published) BY DEF C!Position
<1>4. C!Position \in None .. N
  <2>1. CASE C!Answer # {}
    <3>1. C!Position \in 1 .. N BY <2>1, <1>1, <1>a DEF Events
    <3>2. QED BY <3>1 DEF None
  <2>2. CASE C!Answer = {} /\ cursor # None BY <2>2, <1>2, <1>c
  <2>3. CASE C!Answer = {} /\ cursor = None
    <3>1. C!Cardinality(C!Published) \in 0 .. N BY PublishedCount
    <3>2. QED BY <3>1, <2>3, <1>3 DEF None
  <2>4. QED BY <2>1, <2>2, <2>3
<1>5. C!NextCursor = C!Position \/ C!NextCursor = None BY DEF C!NextCursor
<1>6. C!kind.cursor = "always" => C!NextCursor = C!Position BY DEF C!NextCursor
<1>7. C!Answer = {} /\ C!kind.cursor = "more" => C!NextCursor = None
  <2>1. C!Answer = {} => C!Answer = C!Matching BY AnswerSize
  <2>2. QED BY <2>1 DEF C!NextCursor
<1>8. None \in None .. N BY DEF None
<1>9. QED BY <1>1, <1>2, <1>3, <1>4, <1>5, <1>6, <1>7, <1>8

\* The dedupe map of box: new events get their time, and what is older than BoxKeeps goes.
LEMMA DedupedFacts ==
  ASSUME CursorInv
  PROVE /\ C!Deduped \in [Events -> None .. CursorTime]
        /\ \A e \in Events : C!Deduped[e] # None => C!Deduped[e] = created[e]
        /\ conf.adapter = "box" => \A e \in Events : (dedupe[e] # None \/ e \in C!New) /\ C!Deduped[e] = None => created[e] < now - BoxKeeps
        /\ conf.adapter # "box" => C!Deduped = dedupe
<1> USE CursorConstants
<1>t. C!TypeOK /\ KeptInv BY DEF CursorInv
<1>k. C!kind.dedupe <=> conf.adapter = "box"
  <2>1. conf \in CursorConfs BY <1>t DEF C!TypeOK
  <2>2. QED BY <2>1, CursorConf DEF CursorKindFacts
<1>d. dedupe \in [Events -> None .. CursorTime] /\ created \in [Events -> None .. CursorTime] /\ now \in Nat
  BY <1>t DEF C!TypeOK
<1>n. \A e \in C!New : e \in Events /\ created[e] # None BY CursorAnswer
<1> DEFINE D == [e \in Events |-> IF e \in C!New THEN created[e] ELSE dedupe[e]]
<1>1. CASE conf.adapter = "box"
  <2>1. C!Deduped = C!Cull(D) BY <1>1, <1>k DEF C!Deduped
  <2>2. D \in [Events -> None .. CursorTime] /\ (\A e \in Events : D[e] # None => D[e] = created[e])
        /\ \A e \in Events : dedupe[e] # None \/ e \in C!New => D[e] = created[e] /\ D[e] # None
    BY <1>d, <1>n, <1>t DEF KeptInv
  <2> HIDE DEF D
  <2>3. C!Cull(D) = [e \in Events |-> IF D[e] < now - BoxKeeps THEN None ELSE D[e]] BY DEF C!Cull
  <2>n. None \in None .. CursorTime BY DEF None
  <2>4. C!Deduped \in [Events -> None .. CursorTime] BY <2>1, <2>2, <2>3, <2>n
  <2>5. \A e \in Events : C!Deduped[e] = IF D[e] < now - BoxKeeps THEN None ELSE D[e] BY <2>1, <2>3
  <2>6. QED BY <2>2, <2>4, <2>5, <1>1
<1>2. CASE conf.adapter # "box"
  <2>1. C!Deduped = dedupe BY <1>2, <1>k DEF C!Deduped
  <2>2. QED BY <2>1, <1>2, <1>d, <1>t DEF KeptInv
<1>3. QED BY <1>1, <1>2

-----------------------------------------------------------------------------
\* What an answer has that is new was not taken before.
LEMMA CursorNewNotTaken ==
  ASSUME CursorInv, pc = "request", C!ShipsOnce, NEW e \in C!New PROVE ~Taken(e)
<1> USE CursorConstants
<1>t. C!TypeOK /\ CursorSeen BY DEF CursorInv
<1>k. conf.adapter \in C!Adapters /\ CursorKindFacts(conf.adapter, C!kind)
  <2>1. conf \in CursorConfs BY <1>t DEF C!TypeOK
  <2>2. QED BY <2>1, CursorConf, CursorAssumption DEF C!IsConf
<1>e. /\ e \in Events /\ e \in Nat /\ created[e] \in Int /\ created[e] # None /\ C!Asked(e)
      /\ cursor > 0 => C!Before(cursor, e)
  BY CursorAnswer DEF Events
<1>i. cursor \in Int /\ since \in Int /\ now \in Int BY <1>t DEF C!TypeOK, None
<1>b. cursor > 0 => ~UptoCursor(e) BY <1>e, <1>i DEF UptoCursor, C!Before
<1>1. CASE conf.adapter \in {"onepassword", "sophosBool"} BY <1>1, <1>b, <1>e, <1>t DEF CursorSeen, StreamInv
<1>2. CASE conf.adapter = "box"
  <2>1. dedupe[e] = None BY <1>2, <1>k DEF C!New, CursorKindFacts
  <2>2. ~conf.Descending /\ BoxWindow <= BoxKeeps BY <1>2 DEF C!ShipsOnce
  <2>3. SUFFICES ASSUME Taken(e) PROVE FALSE OBVIOUS
  <2>4. cursor # 0 /\ (cursor > 0 => e <= cursor) /\ created[e] < now - BoxKeeps
    BY <2>1, <2>3, <1>2, <1>e, <1>t DEF CursorSeen, BoxInv
  <2>5. cursor = None \/ cursor > 0 BY <2>4, <1>t DEF C!TypeOK, None
  <2>6. CASE cursor > 0 BY <2>6, <2>4, <2>2, <1>e, <1>i DEF C!Before
  <2>7. CASE cursor = None
    <3>1. created[e] >= now - BoxWindow BY <2>7, <1>2, <1>e, <1>k DEF C!Asked, CursorKindFacts
    <3>2. QED BY <3>1, <2>4, <2>2, <1>e, <1>i
  <2>8. QED BY <2>5, <2>6, <2>7
<1>3. CASE conf.adapter = "slack"
  <2>1. created[e] >= since BY <1>3, <1>e, <1>k DEF C!Asked, CursorKindFacts
  <2>2. SUFFICES ASSUME Taken(e) PROVE FALSE OBVIOUS
  <2>3. processed /\ (cursor # None => UptoCursor(e)) BY <2>1, <2>2, <1>3, <1>e, <1>i, <1>t DEF CursorSeen, SlackInv
  <2>4. cursor \in Events BY <2>3, <1>3, <1>t DEF CursorSeen, SlackInv
  <2>5. cursor > 0 /\ cursor # None BY <2>4 DEF Events, None
  <2>6. QED BY <2>3, <2>5, <1>b
<1>4. CASE conf.adapter = "duo"
  <2>1. created[e] >= since BY <1>4, <1>e, <1>k DEF C!Asked, CursorKindFacts
  <2>2. ~conf.Descending BY <1>4 DEF C!ShipsOnce
  <2>3. QED BY <2>1, <2>2, <1>4, <1>e, <1>i, <1>t DEF CursorSeen, DuoInv
<1>5. CASE conf.adapter = "wiz"
  <2>1. created[e] > since BY <1>5, <1>e, <1>k DEF C!Asked, CursorKindFacts
  <2>2. conf.Descending BY <1>5 DEF C!ShipsOnce
  <2>3. QED BY <2>1, <2>2, <1>5, <1>e, <1>i, <1>t DEF CursorSeen, WizInv
<1>6. QED BY <1>1, <1>2, <1>3, <1>4, <1>5, <1>k DEF C!ShipsOnce, C!Adapters

\* The steps of a cycle that take no event and keep the cursor and the time.
LEMMA CursorQuiet ==
  ASSUME CursorInv,
         UNCHANGED <<conf, now, created, deadline, cursor, since, lastId, processed, dedupe, items, fails, shipped,
                     begun, drained>>,
         isStop' \in BOOLEAN, closer' \in {"no", "wait", "closed"},
         pc' = pc \/ pc' = "ended" \/ (pc = "ship" /\ items = {} /\ conf.adapter = "slack" /\ cursor # None /\ pc' = "request")
  PROVE CursorInv'
<1> USE CursorConstants
<1>t. C!TypeOK /\ KeptInv BY DEF CursorInv
<1>k. C!kind' = C!kind /\ (C!ShipsOnce' <=> C!ShipsOnce) BY CursorKindStays
<1>1. C!TypeOK' BY <1>t DEF C!TypeOK
<1>T. \A e \in Events : (Taken(e)' <=> Taken(e)) /\ (UptoCursor(e)' <=> UptoCursor(e)) BY DEF Taken, UptoCursor, C!Before
<1>2. PublishedInOrder' BY DEF CursorInv, PublishedInOrder
<1>3. KeptInv' BY <1>t, <1>T DEF KeptInv
<1>4. StreamInv' /\ BoxInv' BY <1>k, <1>T DEF CursorInv, CursorSeen, StreamInv, BoxInv
<1>5. SlackInv' BY <1>T DEF CursorInv, CursorSeen, SlackInv
<1>6. DuoInv' /\ WizInv' BY <1>T DEF CursorInv, CursorSeen, DuoInv, WizInv
<1>7. CursorOnce' BY <1>k DEF CursorInv, CursorOnce
<1>8. QED BY <1>1, <1>2, <1>3, <1>4, <1>5, <1>6, <1>7 DEF CursorInv, CursorSeen

\* An event is shipped.
LEMMA CursorShip == ASSUME CursorInv, NEW s \in Events, C!Ship(s) PROVE CursorInv'
<1> USE CursorConstants
<1>t. C!TypeOK /\ KeptInv BY DEF CursorInv
<1>u. UNCHANGED <<conf, now, created, pc, deadline, cursor, since, lastId, processed, dedupe, fails, isStop, closer, begun,
                  drained>>
  BY DEF C!Ship, C!keptVars
<1>k. C!kind' = C!kind /\ (C!ShipsOnce' <=> C!ShipsOnce) BY <1>u, CursorKindStays
<1>r. pc = "ship" /\ s \in items /\ items' = items \ {s} /\ shipped' = [shipped EXCEPT ![s] = IF @ = 2 THEN 2 ELSE @ + 1]
  BY DEF C!Ship
<1>s. /\ shipped \in [Events -> 0 .. 2] /\ shipped' \in [Events -> 0 .. 2] /\ shipped'[s] > 0
      /\ shipped[s] = 0 => shipped'[s] = 1
      /\ \A e \in Events : e # s => shipped'[e] = shipped[e]
  <2>1. shipped \in [Events -> 0 .. 2] BY <1>t DEF C!TypeOK
  <2>2. QED BY <1>r, <2>1
<1>T. \A e \in Events : (Taken(e)' <=> Taken(e)) /\ (UptoCursor(e)' <=> UptoCursor(e))
  BY <1>r, <1>s, <1>u DEF Taken, UptoCursor, C!Before
<1>1. C!TypeOK' BY <1>r, <1>u, <1>s, <1>t DEF C!TypeOK
<1>2. PublishedInOrder' BY <1>u DEF CursorInv, PublishedInOrder
<1>3. KeptInv' BY <1>u, <1>r, <1>T, <1>t DEF KeptInv
<1>4. StreamInv' /\ BoxInv' BY <1>u, <1>k, <1>T DEF CursorInv, CursorSeen, StreamInv, BoxInv
<1>5. SlackInv' BY <1>u, <1>T DEF CursorInv, CursorSeen, SlackInv
<1>6. DuoInv' /\ WizInv' BY <1>u, <1>T DEF CursorInv, CursorSeen, DuoInv, WizInv
<1>7. CursorOnce' BY <1>r, <1>s, <1>k DEF CursorInv, CursorOnce
<1>8. QED BY <1>1, <1>2, <1>3, <1>4, <1>5, <1>6, <1>7 DEF CursorInv, CursorSeen

\* A cycle begins, or a request fails: nothing is taken.
LEMMA CursorWaits ==
  ASSUME CursorInv,
         UNCHANGED <<conf, now, created, since, lastId, dedupe, items, isStop, closer, shipped, begun, drained>>,
         fails' \in 0 .. conf.Fails, deadline' \in 0 .. CursorTime + Interval + conf.MaxBusy,
         \/ pc = "wait" /\ pc' = "request" /\ processed' = FALSE /\ cursor' = cursor
         \/ pc = "request" /\ pc' \in {"wait", "ended"} /\ conf.adapter # "slack" /\ processed' = processed /\ cursor' = cursor
         \/ pc = "request" /\ pc' = "ship" /\ conf.adapter = "slack" /\ processed' = processed /\ cursor' = None
         \/ pc = "request" /\ pc' = "ended" /\ processed' = processed /\ cursor' = cursor
  PROVE CursorInv'
<1> USE CursorConstants
<1>t. C!TypeOK /\ KeptInv BY DEF CursorInv
<1>k. C!kind' = C!kind /\ (C!ShipsOnce' <=> C!ShipsOnce) BY CursorKindStays
<1>c. cursor' \in None .. N /\ processed' \in BOOLEAN
  <2>1. cursor \in None .. N /\ processed \in BOOLEAN /\ None \in None .. N BY <1>t DEF C!TypeOK, None
  <2>2. cursor' \in {cursor, None} /\ processed' \in {processed, FALSE} OBVIOUS
  <2>3. QED BY <2>1, <2>2
<1>1. C!TypeOK' BY <1>t, <1>c DEF C!TypeOK
<1>T. \A e \in Events : Taken(e)' <=> Taken(e) BY DEF Taken
<1>U. \A e \in Events : cursor' = cursor => (UptoCursor(e)' <=> UptoCursor(e)) BY DEF UptoCursor, C!Before
<1>2. PublishedInOrder' BY DEF CursorInv, PublishedInOrder
<1>3. KeptInv' BY <1>t, <1>T DEF KeptInv
<1>4. StreamInv' /\ BoxInv'
  <2>1. conf.adapter # "slack" => cursor' = cursor OBVIOUS
  <2>2. QED BY <2>1, <1>k, <1>T, <1>U DEF CursorInv, CursorSeen, StreamInv, BoxInv
<1>5. SlackInv' BY <1>T, <1>U DEF CursorInv, CursorSeen, SlackInv
<1>6. DuoInv' /\ WizInv' BY <1>T DEF CursorInv, CursorSeen, DuoInv, WizInv
<1>7. CursorOnce' BY <1>k DEF CursorInv, CursorOnce
<1>8. QED BY <1>1, <1>2, <1>3, <1>4, <1>5, <1>6, <1>7 DEF CursorInv, CursorSeen

\* The request before the loop: its events go into the dedupe map, and are dropped.
LEMMA CursorFirst == ASSUME CursorInv, C!FirstRequest \/ C!FirstFails PROVE CursorInv'
<1> USE CursorConstants
<1>t. C!TypeOK /\ KeptInv BY DEF CursorInv
<1>u. UNCHANGED <<conf, now, created, since, lastId, processed, items, isStop, closer, shipped>>
  BY DEF C!FirstRequest, C!FirstFails, C!historyVars
<1>c. C!kind' = C!kind /\ (C!ShipsOnce' <=> C!ShipsOnce) /\ conf.MaxBusy \in Nat /\ CursorKindFacts(conf.adapter, C!kind)
      /\ conf.Fails \in Nat
  <2>1. conf \in CursorConfs BY <1>t DEF C!TypeOK
  <2>2. QED BY <1>u, <2>1, CursorConf, CursorKindStays
<1>r. pc = "first" /\ pc' \in {"wait", "ended"} /\ deadline' = now + Interval BY DEF C!FirstRequest, C!FirstFails
<1>f. /\ fails' \in 0 .. conf.Fails /\ cursor' \in None .. N
      /\ dedupe' \in [Events -> None .. CursorTime] /\ (\A e \in Events : dedupe'[e] # None => dedupe'[e] = created[e])
      /\ begun' \in None .. now /\ drained' \in None .. now
  <2>1. CASE C!FirstRequest
    <3>1. fails' = fails /\ cursor' = C!NextCursor /\ dedupe' = C!Deduped
          /\ begun' \in {begun, now} /\ drained' \in {drained, now}
      BY <2>1 DEF C!FirstRequest, C!Answered
    <3>2. begun \in None .. now /\ drained \in None .. now /\ now \in None .. now /\ fails \in 0 .. conf.Fails
      BY <1>t DEF C!TypeOK, None
    <3>3. QED BY <3>1, <3>2, PositionFacts, DedupedFacts
  <2>2. CASE C!FirstFails
    <3>1. fails' = fails - 1 /\ fails > 0 /\ cursor' \in {cursor, 0} /\ UNCHANGED <<dedupe, begun, drained>>
      BY <2>2 DEF C!FirstFails, C!historyVars
    <3>2. fails' \in 0 .. conf.Fails BY <3>1, <1>c, <1>t DEF C!TypeOK
    <3>3. cursor' \in None .. N
      <4>1. 0 \in None .. N /\ cursor \in None .. N BY <1>t DEF C!TypeOK, None
      <4>2. QED BY <3>1, <4>1
    <3>4. QED BY <3>1, <3>2, <3>3, <1>t DEF C!TypeOK, KeptInv
  <2>3. QED BY <2>1, <2>2
<1>1. C!TypeOK'
  <2>1. deadline' \in 0 .. CursorTime + Interval + conf.MaxBusy BY <1>r, <1>c, <1>t DEF C!TypeOK
  <2>2. QED BY <1>u, <1>r, <1>f, <2>1, <1>t DEF C!TypeOK
<1>2. PublishedInOrder' BY <1>u DEF CursorInv, PublishedInOrder
<1>T. \A e \in Events : ~Taken(e)' BY <1>r, <1>u, <1>t DEF KeptInv, Taken
<1>3. KeptInv' BY <1>u, <1>r, <1>T, <1>t, <1>f DEF KeptInv
<1>4. StreamInv' /\ BoxInv' /\ DuoInv' /\ WizInv' BY <1>T DEF StreamInv, BoxInv, DuoInv, WizInv
<1>5. SlackInv'
  <2>1. conf.adapter # "slack" BY <1>t, <1>r DEF KeptInv
  <2>2. QED BY <2>1, <1>u DEF SlackInv
<1>6. CursorOnce' BY <1>u, <1>c DEF CursorInv, CursorOnce
<1>7. QED BY <1>1, <1>2, <1>3, <1>4, <1>5, <1>6 DEF CursorInv, CursorSeen

\* A cycle ends.
LEMMA CursorShippedAll == ASSUME CursorInv, C!ShippedAll PROVE CursorInv'
<1> USE CursorConstants
<1>t. C!TypeOK /\ KeptInv BY DEF CursorInv
<1>u. UNCHANGED <<conf, now, created, cursor, lastId, processed, dedupe, items, fails, isStop, closer, shipped, begun, drained>>
  BY DEF C!ShippedAll, C!historyVars
<1>c. C!kind' = C!kind /\ (C!ShipsOnce' <=> C!ShipsOnce) /\ conf.MaxBusy \in Nat /\ CursorKindFacts(conf.adapter, C!kind)
  <2>1. conf \in CursorConfs BY <1>t DEF C!TypeOK
  <2>2. QED BY <1>u, <2>1, CursorConf, CursorKindStays
<1>r. pc = "ship" /\ items = {} /\ pc' \in {"wait", "ended"} /\ deadline' = now + Interval /\ since' = C!NextTime
      /\ ~(C!kind.pages /\ cursor # None)
  BY DEF C!ShippedAll, C!Wait
<1>p. processed => since <= now BY <1>r, <1>t DEF KeptInv
<1>i. since \in 0 .. now + 1 /\ now \in 0 .. CursorTime BY <1>t DEF C!TypeOK
<1>s. since' \in 0 .. now + 1 /\ since <= since' /\ (processed => since' = since + 1)
  <2>1. CASE processed BY <2>1, <1>r, <1>p, <1>i DEF C!NextTime
  <2>2. CASE ~processed BY <2>2, <1>r, <1>i DEF C!NextTime
  <2>3. QED BY <2>1, <2>2
<1>1. C!TypeOK'
  <2>1. deadline' \in 0 .. CursorTime + Interval + conf.MaxBusy BY <1>r, <1>c, <1>i
  <2>2. QED BY <1>u, <1>r, <1>s, <2>1, <1>t DEF C!TypeOK
<1>2. PublishedInOrder' BY <1>u DEF CursorInv, PublishedInOrder
<1>T. \A e \in Events : (Taken(e)' <=> Taken(e)) /\ (UptoCursor(e)' <=> UptoCursor(e)) BY <1>u DEF Taken, UptoCursor, C!Before
<1>3. KeptInv' BY <1>u, <1>r, <1>T, <1>t DEF KeptInv
<1>4. StreamInv' /\ BoxInv' BY <1>u, <1>c, <1>T DEF CursorInv, CursorSeen, StreamInv, BoxInv
<1>e. \A e \in Events : created[e] \in Int BY <1>t DEF C!TypeOK, None
<1>5. SlackInv'
  <2> SUFFICES ASSUME conf.adapter = "slack" PROVE SlackInv' BY <1>u DEF SlackInv
  <2>1. cursor = None BY <1>r, <1>c DEF CursorKindFacts
  <2>2. \A e \in Events : Taken(e) => created[e] < since'
    <3> SUFFICES ASSUME NEW e \in Events, Taken(e) PROVE created[e] < since' OBVIOUS
    <3>1. created[e] < since \/ (processed /\ created[e] = since) BY DEF CursorInv, CursorSeen, SlackInv
    <3>2. QED BY <3>1, <1>s, <1>e, <1>i
  <2>3. QED BY <2>1, <2>2, <1>T, <1>u, <1>r DEF SlackInv
<1>6. DuoInv' /\ WizInv'
  <2>1. \A e \in Events : created[e] < since => created[e] < since' BY <1>s, <1>e, <1>i
  <2>2. \A e \in Events : created[e] <= since => created[e] <= since' BY <1>s, <1>e, <1>i
  <2>3. QED BY <2>1, <2>2, <1>u, <1>T DEF CursorInv, CursorSeen, DuoInv, WizInv
<1>7. CursorOnce' BY <1>u, <1>c DEF CursorInv, CursorOnce
<1>8. QED BY <1>1, <1>2, <1>3, <1>4, <1>5, <1>6, <1>7 DEF CursorInv, CursorSeen

\* A request is answered: the new events are taken, and the cursor or the time moves with them.
LEMMA CursorRequest == ASSUME CursorInv, C!Request PROVE CursorInv'
<1> USE CursorConstants
<1>t. C!TypeOK /\ KeptInv /\ CursorSeen BY DEF CursorInv
<1>u. UNCHANGED <<conf, now, created, deadline, fails, isStop, closer, shipped>> BY DEF C!Request
<1>c. C!kind' = C!kind /\ (C!ShipsOnce' <=> C!ShipsOnce) /\ CursorKindFacts(conf.adapter, C!kind)
  <2>1. conf \in CursorConfs BY <1>t DEF C!TypeOK
  <2>2. QED BY <1>u, <2>1, CursorConf, CursorKindStays
<1>r. /\ pc = "request" /\ pc' = "ship" /\ items' = C!New /\ dedupe' = C!Deduped /\ since' = C!KeptTime
      /\ lastId' = (IF C!kind.from = "after" /\ C!New # {} THEN C!LastOf(C!New) ELSE lastId)
      /\ cursor' = C!NextCursor \/ (C!kind.zero /\ C!Answer = {} /\ cursor' = None)
      /\ begun' \in {begun, now} /\ drained' \in {drained, now}
  BY DEF C!Request, C!Answered
<1>p. processed' = (C!kind.pages /\ (processed \/ C!New # {})) BY DEF C!Request
<1>q. processed' \in BOOLEAN /\ (processed' => conf.adapter = "slack" /\ (processed \/ C!New # {}))
      /\ (conf.adapter = "slack" /\ C!New # {} => processed') /\ (conf.adapter = "slack" /\ processed => processed')
  BY <1>p, <1>c, Zenon DEF CursorKindFacts
<1>a. C!New \subseteq C!Answer /\ C!Answer \subseteq Events /\ C!New \subseteq Events
      /\ \A e \in C!New : created[e] # None /\ created[e] \in 0 .. now
  BY CursorAnswer
<1>i. /\ cursor \in None .. N /\ cursor \in Int /\ since \in 0 .. now + 1 /\ now \in 0 .. CursorTime
      /\ \A e \in Events : created[e] \in Int /\ e \in Nat /\ e > 0
  BY <1>t DEF C!TypeOK, None, Events
<1>j. items = {} BY <1>r, <1>t DEF KeptInv
<1>T. \A e \in Events : Taken(e)' <=> Taken(e) \/ e \in C!New BY <1>r, <1>u, <1>j DEF Taken
<1>l. C!New # {} => C!LastOf(C!New) \in C!New /\ \A f \in C!New : f = C!LastOf(C!New) \/ C!Before(f, C!LastOf(C!New))
  BY <1>a, EndsExist
<1>m. C!Answer # {} =>
        /\ C!LastOf(C!Answer) \in C!Answer /\ \A f \in C!Answer : f = C!LastOf(C!Answer) \/ C!Before(f, C!LastOf(C!Answer))
        /\ C!FirstOf(C!Answer) \in C!Answer /\ \A f \in C!Answer : f = C!FirstOf(C!Answer) \/ C!Before(C!FirstOf(C!Answer), f)
  BY <1>a, EndsExist
<1>b. \A e, f : C!Before(e, f)' <=> C!Before(e, f) BY <1>u DEF C!Before
<1>1. C!TypeOK'
  <2>1. cursor' \in None .. N
    <3>1. None \in None .. N BY DEF None
    <3>2. QED BY <3>1, <1>r, PositionFacts
  <2>2. since' \in 0 .. now + 1 BY <1>r, KeptTimeFacts
  <2>3. lastId' \in 0 .. N
    <3>1. C!New # {} => C!LastOf(C!New) \in Events BY <1>l, <1>a
    <3>e. \A e \in Events : e \in 0 .. N BY DEF Events
    <3>2. QED BY <3>1, <3>e, <1>r, <1>t DEF C!TypeOK
  <2>4. begun' \in None .. now /\ drained' \in None .. now
    <3>1. begun \in None .. now /\ drained \in None .. now /\ now \in None .. now BY <1>t DEF C!TypeOK, None
    <3>2. QED BY <3>1, <1>r
  <2>5. dedupe' \in [Events -> None .. CursorTime] BY <1>r, DedupedFacts
  <2>6. isStop' \in BOOLEAN BY <1>u, <1>t DEF C!TypeOK
  <2>7. items' \subseteq Events BY <1>r, <1>a
  <2>8. QED BY <1>u, <1>r, <1>q, <2>1, <2>2, <2>3, <2>4, <2>5, <2>6, <2>7, <1>t DEF C!TypeOK
<1>2. PublishedInOrder' BY <1>u DEF CursorInv, PublishedInOrder
<1>3. KeptInv'
  <2>1. \A e \in Events : dedupe'[e] # None => dedupe'[e] = created[e] BY <1>r, DedupedFacts
  <2>2. \A e \in Events : Taken(e)' => created[e] # None BY <1>T, <1>a, <1>t DEF KeptInv
  <2>3. processed' => conf.adapter = "slack" /\ since' <= now
    <3> SUFFICES ASSUME processed' PROVE conf.adapter = "slack" /\ since' <= now OBVIOUS
    <3>1. conf.adapter = "slack" /\ (processed \/ C!New # {}) /\ C!kind.keep = "newest" BY <1>q, <1>c DEF CursorKindFacts
    <3>2. CASE C!New = {}
      <4>1. since <= now BY <3>1, <3>2, <1>r, <1>t DEF KeptInv
      <4>2. QED BY <4>1, <3>1, <3>2, <1>r, KeptTimeFacts
    <3>3. CASE C!New # {}
      <4>1. PICK x \in C!New : C!KeptTime = created[x] BY <3>1, <3>3, KeptTimeFacts
      <4>2. QED BY <4>1, <3>1, <1>r, <1>a
    <3>4. QED BY <3>2, <3>3
  <2>4. QED BY <2>1, <2>2, <2>3, <1>r, <1>u DEF KeptInv
<1>4. CursorOnce'
  <2>1. C!ShipsOnce => \A e \in C!New : ~Taken(e) BY <1>r, CursorNewNotTaken
  <2>2. \A e \in Events : shipped[e] \in Nat BY <1>t DEF C!TypeOK
  <2>3. QED BY <2>1, <2>2, <1>a, <1>u, <1>r, <1>c DEF CursorInv, CursorOnce, Taken
<1>5. StreamInv'
  <2> SUFFICES ASSUME conf.adapter \in {"onepassword", "sophosBool"}, NEW e \in Events, Taken(e)'
               PROVE cursor' > 0 /\ UptoCursor(e)'
    BY <1>u DEF StreamInv
  <2>1. cursor' = C!Position BY <1>r, <1>c, PositionFacts DEF CursorKindFacts
  <2>2. Taken(e) => cursor > 0 /\ UptoCursor(e) BY <1>t DEF CursorSeen, StreamInv
  <2>3. CASE C!Answer = {}
    <3>1. Taken(e) BY <2>3, <1>T, <1>a
    <3>2. cursor > 0 /\ cursor # None BY <3>1, <2>2 DEF None
    <3>3. cursor' = cursor BY <3>2, <2>1, <2>3, PositionFacts
    <3>4. QED BY <3>1, <3>3, <2>2, <1>b DEF UptoCursor
  <2>4. CASE C!Answer # {}
    <3>1. cursor' = C!LastOf(C!Answer) /\ cursor' \in C!Answer BY <2>1, <2>4, PositionFacts
    <3>2. cursor' \in Nat /\ cursor' > 0 BY <3>1, <1>a, <1>i
    <3>3. CASE e \in C!New BY <3>1, <3>2, <3>3, <2>4, <1>m, <1>a, <1>b DEF UptoCursor
    <3>4. CASE Taken(e)
      <4>1. cursor > 0 /\ UptoCursor(e) BY <2>2, <3>4
      <4>2. C!Before(cursor, cursor') BY <3>1, <4>1, CursorAnswer
      <4>3. C!Before(e, cursor') BY <4>1, <4>2, <3>2, <1>i DEF UptoCursor, C!Before
      <4>4. QED BY <4>3, <3>2, <1>b DEF UptoCursor
    <3>5. QED BY <3>3, <3>4, <1>T
  <2>5. QED BY <2>3, <2>4
<1>6. BoxInv'
  <2> SUFFICES ASSUME conf.adapter = "box", C!ShipsOnce, NEW e \in Events, Taken(e)'
               PROVE /\ cursor' # 0 /\ (cursor' > 0 => e <= cursor')
                     /\ dedupe'[e] # None \/ created[e] < now - BoxKeeps
    BY <1>u, <1>c DEF BoxInv
  <2>d. ~conf.Descending /\ C!Answer = C!Matching BY AnswerSize DEF C!ShipsOnce
  <2>1. Taken(e) => /\ cursor # 0 /\ (cursor > 0 => e <= cursor)
                    /\ dedupe[e] # None \/ created[e] < now - BoxKeeps
    BY <1>t DEF CursorSeen, BoxInv
  <2>2. dedupe'[e] # None \/ created[e] < now - BoxKeeps
    <3>1. (dedupe[e] # None \/ e \in C!New) /\ dedupe'[e] = None => created[e] < now - BoxKeeps BY <1>r, DedupedFacts
    <3>2. QED BY <3>1, <2>1, <1>T
  <2>3. CASE cursor' = None BY <2>2, <2>3 DEF None
  <2>4. CASE cursor' # None /\ C!Answer = {}
    <3>1. Taken(e) /\ cursor' = C!Position BY <2>4, <1>T, <1>a, <1>r, PositionFacts
    <3>2. CASE cursor # None BY <3>1, <3>2, <2>1, <2>2, <2>4, PositionFacts
    <3>3. CASE cursor = None
      <4>1. e \in C!Published BY <3>1, <1>t DEF KeptInv, C!Published
      <4>2. cursor' \in 0 .. N /\ e <= cursor' BY <4>1, <3>1, <3>3, <2>4, PositionFacts, PublishedCount
      <4>3. QED BY <4>2, <2>2, <1>i
    <3>4. QED BY <3>2, <3>3
  <2>5. CASE cursor' # None /\ C!Answer # {}
    <3>1. cursor' = C!LastOf(C!Answer) /\ cursor' \in C!Answer BY <2>5, <1>r, PositionFacts
    <3>2. cursor' \in Nat /\ cursor' > 0 /\ cursor' \in Events BY <3>1, <1>a, <1>i
    <3>3. CASE e \in C!Answer
      <4>1. e = cursor' \/ C!Before(e, cursor') BY <3>1, <3>3, <1>m
      <4>2. QED BY <4>1, <3>2, <2>d, <2>2, <1>i DEF C!Before
    <3>4. CASE e \notin C!Answer
      <4>1. Taken(e) BY <3>4, <1>T, <1>a
      <4>2. CASE cursor > 0
        <5>1. cursor < cursor' BY <4>2, <3>1, <2>d, CursorAnswer DEF C!Before
        <5>2. QED BY <5>1, <4>1, <4>2, <2>1, <2>2, <3>2, <1>i
      <4>3. CASE cursor = None
        <5> SUFFICES ASSUME cursor' < e PROVE FALSE BY <2>2, <3>2, <1>i
        <5>1. created[e] # None /\ created[cursor'] <= created[e] BY <4>1, <3>2, <1>t DEF KeptInv, CursorInv, PublishedInOrder
        <5>2. created[cursor'] >= now - BoxWindow BY <3>1, <4>3, <1>c, CursorAnswer DEF C!Asked, CursorKindFacts
        <5>3. created[e] >= now - BoxWindow BY <5>1, <5>2, <3>2, <1>i
        <5>4. C!Asked(e) BY <5>3, <4>3, <1>c DEF C!Asked, CursorKindFacts
        <5>5. e \in C!Matching BY <5>1, <5>4, <4>3 DEF C!Matching, C!Published, None
        <5>6. QED BY <5>5, <3>4, <2>d
      <4>4. cursor > 0 \/ cursor = None BY <4>1, <2>1, <1>i DEF None
      <4>5. QED BY <4>2, <4>3, <4>4
    <3>5. QED BY <3>3, <3>4
  <2>6. QED BY <2>3, <2>4, <2>5
<1>7. SlackInv'
  <2> SUFFICES ASSUME conf.adapter = "slack"
               PROVE /\ cursor' = None \/ cursor' \in Events
                     /\ \A e \in Events : Taken(e)' =>
                          \/ created[e] < since'
                          \/ processed' /\ created[e] = since' /\ (cursor' # None => UptoCursor(e)')
    BY <1>u, <1>r DEF SlackInv
  <2>k. C!kind.cursor = "more" /\ C!kind.keep = "newest" /\ ~C!kind.zero BY <1>c DEF CursorKindFacts
  <2>c. cursor' = C!NextCursor BY <2>k, <1>r
  <2>1. cursor' # None => C!Answer # {} /\ cursor' = C!LastOf(C!Answer) /\ cursor' \in C!Answer
    BY <2>c, <2>k, PositionFacts
  <2>n. C!New = C!Answer BY <1>c DEF C!New, CursorKindFacts
  <2>2. \A e \in Events : Taken(e) =>
          \/ created[e] < since
          \/ processed /\ created[e] = since /\ cursor \in Events /\ UptoCursor(e)
    BY <1>r, <1>t DEF CursorSeen, SlackInv
  <2>3. \A e \in Events : Taken(e)' =>
          \/ created[e] < since'
          \/ processed' /\ created[e] = since' /\ (cursor' # None => UptoCursor(e)')
    <3> SUFFICES ASSUME NEW e \in Events, Taken(e)'
                 PROVE \/ created[e] < since'
                       \/ processed' /\ created[e] = since' /\ (cursor' # None => UptoCursor(e)')
      OBVIOUS
    <3>1. CASE C!New = {}
      <4>1. since' = since /\ Taken(e) /\ cursor' = None BY <3>1, <1>r, <1>T, <2>1, <2>n, KeptTimeFacts
      <4>2. QED BY <4>1, <2>2, <1>q
    <3>2. CASE C!New # {}
      <4>1. PICK x \in C!New : since' = created[x] /\ \A f \in C!New : created[f] <= created[x]
        BY <3>2, <2>k, <1>r, KeptTimeFacts
      <4>2. processed' /\ x \in Events BY <3>2, <1>q, <4>1, <1>a
      <4>3. since <= since'
        <5>1. created[x] >= since BY <4>1, <1>c, CursorAnswer DEF C!Asked, CursorKindFacts
        <5>2. QED BY <5>1, <4>1, <4>2, <1>i
      <4>4. CASE e \in C!New
        <5>1. created[e] <= since' BY <4>1, <4>4
        <5>2. cursor' # None => UptoCursor(e)' BY <4>4, <2>1, <2>n, <1>m, <1>b DEF UptoCursor
        <5>3. QED BY <5>1, <5>2, <4>1, <4>2, <1>i
      <4>5. CASE Taken(e)
        <5>1. CASE created[e] < since BY <5>1, <4>1, <4>2, <4>3, <1>i
        <5>2. CASE processed /\ created[e] = since /\ cursor \in Events /\ UptoCursor(e)
          <6>1. cursor > 0 BY <5>2, <1>i
          <6>2. cursor' # None => C!Before(cursor, cursor') /\ cursor' \in Nat BY <6>1, <2>1, <1>a, <1>i, CursorAnswer
          <6>3. cursor' # None => C!Before(e, cursor') BY <6>2, <5>2, <1>i DEF UptoCursor, C!Before
          <6>4. cursor' # None => UptoCursor(e)' BY <6>3, <1>b DEF UptoCursor
          <6>5. QED BY <6>4, <5>2, <4>1, <4>2, <4>3, <1>i
        <5>3. QED BY <5>1, <5>2, <4>5, <2>2
      <4>6. QED BY <4>4, <4>5, <1>T
    <3>3. QED BY <3>1, <3>2
  <2>4. QED BY <2>1, <2>3, <1>a
<1>8. DuoInv'
  <2> SUFFICES ASSUME conf.adapter = "duo", ~conf.Descending, NEW e \in Events, Taken(e)' PROVE created[e] < since'
    BY <1>u DEF DuoInv
  <2>k. C!kind.keep = "lastPlus" /\ C!kind.from = "since" BY <1>c DEF CursorKindFacts
  <2>1. Taken(e) => created[e] < since BY <1>t DEF CursorSeen, DuoInv
  <2>2. CASE C!New = {} BY <2>1, <2>2, <1>T, <1>r, KeptTimeFacts
  <2>3. CASE C!New # {}
    <3> DEFINE z == C!LastOf(C!New)
    <3>1. z \in C!New /\ z \in Events /\ (\A f \in C!New : f = z \/ f < z) BY <2>3, <1>l, <1>a DEF C!Before
    <3>2. since' = created[z] + 1 BY <2>3, <2>k, <1>r, KeptTimeFacts
    <3> HIDE DEF z
    <3>3. created[z] >= since BY <3>1, <2>k, CursorAnswer DEF C!Asked
    <3>4. CASE Taken(e) BY <3>1, <3>2, <3>3, <3>4, <2>1, <1>i
    <3>5. CASE e \in C!New
      <4>1. created[e] <= created[z]
        <5>1. CASE e = z BY <5>1, <1>i
        <5>2. CASE e < z BY <5>2, <3>1, <1>a DEF CursorInv, PublishedInOrder
        <5>3. QED BY <5>1, <5>2, <3>1, <3>5
      <4>2. QED BY <4>1, <3>1, <3>2, <1>i
    <3>6. QED BY <3>4, <3>5, <1>T
  <2>4. QED BY <2>2, <2>3
<1>9. WizInv'
  <2> SUFFICES ASSUME conf.adapter = "wiz", conf.Descending, NEW e \in Events, Taken(e)' PROVE created[e] <= since'
    BY <1>u DEF WizInv
  <2>k. C!kind.keep = "first" /\ C!kind.from = "after" BY <1>c DEF CursorKindFacts
  <2>1. Taken(e) => created[e] <= since BY <1>t DEF CursorSeen, WizInv
  <2>2. CASE C!New = {} BY <2>1, <2>2, <1>T, <1>r, KeptTimeFacts
  <2>3. CASE C!New # {}
    <3> DEFINE z == C!FirstOf(C!Answer)
    <3>1. z \in C!Answer /\ z \in Events /\ (\A f \in C!Answer : f = z \/ z > f) BY <2>3, <1>m, <1>a DEF C!Before
    <3> HIDE DEF z
    <3>2. z \in C!New
      <4>1. PICK x \in C!New : TRUE BY <2>3
      <4>2. ~C!kind.dedupe BY <1>c DEF CursorKindFacts
      <4>3. x \in C!Answer /\ x \in Events /\ (lastId \in C!Answer => C!Before(x, lastId)) BY <4>1, <2>k, <1>a DEF C!New
      <4>4. lastId \in C!Answer => C!Before(z, lastId)
        <5> SUFFICES ASSUME lastId \in C!Answer PROVE C!Before(z, lastId) OBVIOUS
        <5>1. x > lastId /\ (x = z \/ z > x) /\ x \in Nat /\ z \in Nat /\ lastId \in Nat BY <4>3, <3>1, <1>a, <1>i DEF C!Before
        <5>2. QED BY <5>1 DEF C!Before
      <4>5. QED BY <3>1, <4>2, <4>4 DEF C!New
    <3>3. since' = created[z] BY <2>3, <2>k, <3>2, <1>r, KeptTimeFacts DEF z
    <3>4. created[z] > since BY <3>1, <2>k, CursorAnswer DEF C!Asked
    <3>5. CASE Taken(e) BY <3>1, <3>3, <3>4, <3>5, <2>1, <1>i
    <3>6. CASE e \in C!New
      <4>1. created[e] <= created[z]
        <5>1. CASE e = z BY <5>1, <1>i
        <5>2. CASE e < z BY <5>2, <3>1, <3>2, <1>a DEF CursorInv, PublishedInOrder
        <5>3. QED BY <5>1, <5>2, <3>1, <3>6, <1>a
      <4>2. QED BY <4>1, <3>3
    <3>7. QED BY <3>5, <3>6, <1>T
  <2>4. QED BY <2>2, <2>3
<1>10. QED BY <1>1, <1>2, <1>3, <1>4, <1>5, <1>6, <1>7, <1>8, <1>9 DEF CursorInv, CursorSeen

\* Every step of a cursor poller keeps the invariant.
LEMMA CursorStep == ASSUME CursorInv, C!Next PROVE CursorInv'
<1> USE CursorConstants
<1>t. C!TypeOK BY DEF CursorInv
<1>c. conf.MaxBusy \in Nat /\ CursorKindFacts(conf.adapter, C!kind)
  <2>1. conf \in CursorConfs BY <1>t DEF C!TypeOK
  <2>2. QED BY <2>1, CursorConf
<1>p. C!kind.pages <=> conf.adapter = "slack" BY <1>c DEF CursorKindFacts
<1>i. isStop \in BOOLEAN /\ closer \in {"no", "wait", "closed"} /\ now \in 0 .. CursorTime BY <1>t DEF C!TypeOK
<1>1. CASE C!WaitStopped \/ C!ShipFails \/ C!NextPage \/ C!CloseStop \/ C!CloseWait \/ C!Stopped
  <2> USE DEF C!WaitStopped, C!ShipFails, C!NextPage, C!CloseStop, C!CloseWait, C!Stopped, C!vars, C!keptVars, C!historyVars
  <2>1. UNCHANGED <<conf, now, created, deadline, cursor, since, lastId, processed, dedupe, items, fails, shipped,
                    begun, drained>>
    BY <1>1
  <2>2. isStop' \in BOOLEAN
    <3>1. isStop' = isStop \/ isStop' = TRUE \/ isStop' = (isStop \/ ~C!kind.pages) BY <1>1
    <3>2. QED BY <3>1, <1>i
  <2>3. closer' \in {"no", "wait", "closed"} BY <1>1, <1>i
  <2>4. pc' = pc \/ pc' = "ended" \/ (pc = "ship" /\ items = {} /\ conf.adapter = "slack" /\ cursor # None /\ pc' = "request")
    BY <1>1, <1>p
  <2>5. QED BY <2>1, <2>2, <2>3, <2>4, CursorQuiet
<1>2. CASE C!WaitTimedOut \/ C!RequestFails \/ C!SlackNotOK \/ C!SlackFails
  <2> USE DEF C!WaitTimedOut, C!RequestFails, C!SlackNotOK, C!SlackFails, C!Wait, C!CursorKept, C!keptVars, C!historyVars
  <2>1. UNCHANGED <<conf, now, created, since, lastId, dedupe, items, isStop, closer, shipped, begun, drained>> BY <1>2
  <2>2. fails' \in 0 .. conf.Fails
    <3>1. fails' = fails \/ (fails > 0 /\ fails' = fails - 1) BY <1>2
    <3>2. fails \in 0 .. conf.Fails /\ conf.Fails \in Nat
      <4>1. conf \in CursorConfs BY <1>t DEF C!TypeOK
      <4>2. QED BY <4>1, <1>t, CursorConf DEF C!TypeOK
    <3>3. QED BY <3>1, <3>2
  <2>3. deadline' \in 0 .. CursorTime + Interval + conf.MaxBusy
    <3>1. deadline' = deadline \/ deadline' = now + Interval \/ deadline' = now + conf.MaxBusy BY <1>2
    <3>2. QED BY <3>1, <1>i, <1>c, <1>t DEF C!TypeOK
  <2>4. \/ pc = "wait" /\ pc' = "request" /\ processed' = FALSE /\ cursor' = cursor
        \/ pc = "request" /\ pc' \in {"wait", "ended"} /\ conf.adapter # "slack" /\ processed' = processed /\ cursor' = cursor
        \/ pc = "request" /\ pc' = "ship" /\ conf.adapter = "slack" /\ processed' = processed /\ cursor' = None
        \/ pc = "request" /\ pc' = "ended" /\ processed' = processed /\ cursor' = cursor
    BY <1>2, <1>p
  <2>5. QED BY <2>1, <2>2, <2>3, <2>4, CursorWaits
<1>3. CASE C!Cycle
  BY <1>1, <1>2, <1>3, CursorFirst, CursorRequest, CursorShip, CursorShippedAll DEF C!Cycle
<1>4. QED BY <1>1, <1>3, CursorTick, CursorPublish DEF C!Next

-----------------------------------------------------------------------------
(***************************************************************************)
(* The window pollers miss no event.                                       *)
(***************************************************************************)
\* What the records say of windows and pages.
PageFacts(a, k) ==
  /\ k.more \in {"told", "full"}
  /\ k.from = "overlap" =>
       k.bounded = TRUE /\ k.new = "unseen" /\ k.next \in {"lastNew", "never"} /\ k.pages \in {"first", "all"}
  /\ k.from = "margin" => k.bounded = TRUE
  /\ k.from = "since" => k.new \in {"notLast", "any"}
  /\ k.from = "all" => k.new = "unseenLater" /\ k.bounded = FALSE
  /\ k.new = "any" => k.bounded = TRUE /\ k.rejected = FALSE /\ k.next \in {"now", "until"}
  /\ k.next = "now" <=> a = "trendmicro"
  /\ k.next = "now" => k.pages = "all"
  /\ k.next = "until" /\ k.from # "margin" => k.pages = "each"
  /\ k.pages = "each" => k.next = "until" /\ k.new = "any"
  /\ k.next = "lastNew" => k.new \in {"unseen", "notLast"}
  /\ k.next = "newest" => k.new = "unseenLater"
  /\ k.stamp = "none" <=> k.new \in {"notLast", "any"}

\* Every adapter has such a record.
LEMMA PageKinds == \A a \in Adapters : PageFacts(a, Kind[a])
<1> USE DEF PageFacts
<1>1. PageFacts("okta", Okta) BY DEF Okta, DedupeWindow
<1>2. PageFacts("hubspot", Hubspot) BY DEF Hubspot, DedupeWindow
<1>3. PageFacts("pandadoc", Pandadoc) BY DEF Pandadoc, DedupeWindow
<1>4. PageFacts("zendesk", Zendesk) BY DEF Zendesk, DedupeWindow
<1>5. PageFacts("mimecast", Mimecast) BY DEF Mimecast, DedupeWindow
<1>6. PageFacts("sublime", Sublime) BY DEF Sublime, DedupeWindow
<1>7. PageFacts("proofpoint_tap", ProofpointTap) BY DEF ProofpointTap, DedupeWindow
<1>8. PageFacts("entraid", Entraid) BY DEF Entraid, LastEvent
<1>9. PageFacts("defender", Defender) BY DEF Defender, LastEvent
<1>10. PageFacts("ms_graph", MsGraph) BY DEF MsGraph, LastEvent
<1>11. PageFacts("trendmicro", TrendMicro) BY DEF TrendMicro, LastEvent
<1>12. PageFacts("bitwarden", Bitwarden) BY DEF Bitwarden, TrendMicro, LastEvent
<1> HIDE DEF PageFacts
<1>13. \A a \in Adapters :
         \/ a = "okta" /\ Kind[a] = Okta
         \/ a = "hubspot" /\ Kind[a] = Hubspot
         \/ a = "pandadoc" /\ Kind[a] = Pandadoc
         \/ a = "zendesk" /\ Kind[a] = Zendesk
         \/ a = "mimecast" /\ Kind[a] = Mimecast
         \/ a = "sublime" /\ Kind[a] = Sublime
         \/ a = "proofpoint_tap" /\ Kind[a] = ProofpointTap
         \/ a = "entraid" /\ Kind[a] = Entraid
         \/ a = "defender" /\ Kind[a] = Defender
         \/ a = "ms_graph" /\ Kind[a] = MsGraph
         \/ a = "trendmicro" /\ Kind[a] = TrendMicro
         \/ a = "bitwarden" /\ Kind[a] = Bitwarden
  BY DEF Adapters, Kind
<1>14. QED BY <1>1, <1>2, <1>3, <1>4, <1>5, <1>6, <1>7, <1>8, <1>9, <1>10, <1>11, <1>12, <1>13

\* The conditions under which nothing is claimed to be missed, by kind of record.
LosesFacts(k) ==
  /\ k.from = "overlap" => Overlapping
  /\ k.new = "unseenLater" => ~conf.Ties
  /\ k.next = "now" => conf.MaxBusy = 0
  /\ k.pages = "first" => OnePage
  /\ k.rejected = TRUE => OnePage
  /\ OnePage \/ Steady \/ k.pages = "none" \/ k.next = "now"
  /\ k.next = "lastNew" /\ k.new = "unseen" => Steady

\* They follow from LosesNone.
LEMMA LosesNoneMeans == ASSUME conf \in Confs, LosesNone PROVE LosesFacts(kind)
<1> USE DEF LosesFacts
<1>a. conf.adapter \in Adapters BY WindowConf
<1>1. CASE conf.adapter = "okta"
  <2>1. kind = Okta /\ OnePage /\ Overlapping BY <1>1 DEF kind, Kind, LosesNone
  <2>2. QED BY <2>1 DEF Okta, DedupeWindow
<1>2. CASE conf.adapter = "hubspot"
  <2>1. kind = Hubspot /\ OnePage /\ Overlapping BY <1>2 DEF kind, Kind, LosesNone
  <2>2. QED BY <2>1 DEF Hubspot, DedupeWindow
<1>3. CASE conf.adapter = "pandadoc"
  <2>1. kind = Pandadoc /\ Steady /\ Overlapping BY <1>3 DEF kind, Kind, LosesNone
  <2>2. QED BY <2>1 DEF Pandadoc, DedupeWindow
<1>4. CASE conf.adapter = "zendesk"
  <2>1. kind = Zendesk /\ Steady /\ Overlapping /\ OnePage BY <1>4 DEF kind, Kind, LosesNone
  <2>2. QED BY <2>1 DEF Zendesk, DedupeWindow
<1>5. CASE conf.adapter = "mimecast"
  <2>1. kind = Mimecast /\ Steady /\ Overlapping BY <1>5 DEF kind, Kind, LosesNone
  <2>2. QED BY <2>1 DEF Mimecast, DedupeWindow
<1>6. CASE conf.adapter = "sublime"
  <2>1. kind = Sublime /\ ~conf.Ties /\ (Steady \/ OnePage) BY <1>6 DEF kind, Kind, LosesNone
  <2>2. QED BY <2>1 DEF Sublime, DedupeWindow
<1>7. CASE conf.adapter = "proofpoint_tap"
  <2>1. kind = ProofpointTap BY <1>7 DEF kind, Kind
  <2>2. QED BY <2>1 DEF ProofpointTap, DedupeWindow
<1>8. CASE conf.adapter = "entraid"
  <2>1. kind = Entraid /\ OnePage BY <1>8 DEF kind, Kind, LosesNone
  <2>2. QED BY <2>1 DEF Entraid, LastEvent
<1>9. CASE conf.adapter = "defender"
  <2>1. kind = Defender /\ OnePage BY <1>9 DEF kind, Kind, LosesNone
  <2>2. QED BY <2>1 DEF Defender, LastEvent
<1>10. CASE conf.adapter = "ms_graph"
  <2>1. kind = MsGraph /\ OnePage BY <1>10 DEF kind, Kind, LosesNone
  <2>2. QED BY <2>1 DEF MsGraph, LastEvent
<1>11. CASE conf.adapter = "trendmicro"
  <2>1. kind = TrendMicro /\ conf.MaxBusy = 0 BY <1>11 DEF kind, Kind, LosesNone
  <2>2. QED BY <2>1 DEF TrendMicro, LastEvent
<1>12. CASE conf.adapter = "bitwarden"
  <2>1. kind = Bitwarden /\ (Steady \/ OnePage) BY <1>12 DEF kind, Kind, LosesNone
  <2>2. QED BY <2>1 DEF Bitwarden, TrendMicro, LastEvent
<1>13. QED BY <1>a, <1>1, <1>2, <1>3, <1>4, <1>5, <1>6, <1>7, <1>8, <1>9, <1>10, <1>11, <1>12 DEF Adapters

-----------------------------------------------------------------------------
\* A cycle is under way, and more of its pages are to come.
InCycle == pc = "page" \/ (pc = "ship" /\ page > 0)

\* Another cycle may come.
Live == pc \in {"wait", "page"} \/ (pc = "ship" /\ ~isStop)

\* It is shipped, or will be before the next cycle.
Settled(e) == shipped[e] > 0 \/ (pc = "ship" /\ page = 0 /\ e \in items)

Failed == conf.Fails - fails
Round == Interval + conf.MaxBusy

\* The clock does not pass a deadline, which in a cycle is counted from its beginning.
TimesInv ==
  /\ \A e \in Events : created[e] # None => created[e] > 0
  /\ pc # "ended" => now <= deadline
  /\ pc \in {"page", "ship"} /\ kind.from # "margin" => deadline = until + conf.MaxBusy
  /\ pc = "ship" /\ page = 0 => asked = until
  /\ kind.new = "unseenLater" => last = 0 \/ \E m \in Events : created[m] = last

\* With windows that overlap by enough, the next one begins before the last one ended,
\* whatever has failed in between.
DelayInv ==
  LosesNone /\ kind.from = "overlap" =>
    /\ pc = "wait" => deadline <= asked + (Failed + 1) * Round
    /\ pc = "page" => deadline <= asked + (Failed + 1) * Round + conf.MaxBusy

\* Where a failure goes back to: the time kept.
BackInv ==
  /\ OnePage => page <= 1
  /\ pc = "page" /\ page = 1 => items = {}
  /\ kind.stamp = "none" => \A e \in Events : dedupe[e] = None
  /\ /\ InCycle
     /\ kind.next \notin {"lastNew", "newest"} \/ (page = 1 /\ ~(kind.next = "lastNew" /\ kind.new = "unseen"))
     => last = since

\* What is not new was taken.
KnownInv ==
  LosesNone =>
    /\ \A e \in Events : dedupe[e] # None => Taken(e)
    /\ kind.new = "notLast" /\ lastId # 0 => Taken(lastId)
    /\ kind.new = "unseenLater" => \A e \in Events : created[e] # None /\ created[e] <= last => Taken(e)

\* What lies before the window is shipped, and the pages so far are taken: of the events
\* that are not older than the first start.
PagesInv ==
  LosesNone /\ InCycle =>
    /\ (page - 1) * conf.PageSize <= Cardinality(Window)
    /\ \A e \in Window : Place(e) <= (page - 1) * conf.PageSize => Taken(e)
    /\ \A e \in Events : created[e] # None /\ First <= created[e] /\ created[e] < start => shipped[e] > 0

\* Nothing is left behind the last window that was asked for to its end, and behind the
\* time at which the next one starts.
BehindInv ==
  LosesNone /\ Live =>
    \A e \in Events :
      /\ created[e] # None /\ First <= created[e]
      /\ created[e] < asked \/ (kind.from # "all" /\ created[e] < since)
      => Settled(e)

CoverInv == TimesInv /\ DelayInv /\ BackInv /\ KnownInv /\ PagesInv /\ BehindInv

\* The numbers of a window poller.
LEMMA WindowNumbers ==
  ASSUME TypeOK
  PROVE  /\ now \in Nat /\ deadline \in Nat /\ since \in Int /\ until \in Nat /\ last \in Int /\ asked \in Nat
         /\ start \in Int /\ page \in Nat /\ fails \in Nat /\ fails <= conf.Fails /\ conf.Fails \in Nat
         /\ conf.MaxBusy \in Nat /\ conf.PageSize \in Nat \ {0} /\ Interval \in Nat /\ kind.overlap \in Nat
         /\ until <= now /\ asked <= now /\ First \in Int
         /\ since <= now \/ since = First
         /\ ~kind.local => First = 0 /\ last \in Nat /\ last <= now
         /\ \A e \in Events : created[e] \in Int /\ shipped[e] \in Nat /\ e \in Nat \ {0}
         /\ KindFacts(kind) /\ PageFacts(conf.adapter, kind)
         /\ LosesNone => LosesFacts(kind)
<1> USE WindowConstants
<1>1. conf \in Confs BY DEF TypeOK
<1>2. /\ conf.adapter \in Adapters /\ conf.PageSize \in Nat \ {0} /\ conf.Fails \in Nat /\ conf.MaxBusy \in Nat
      /\ KindFacts(kind) /\ First \in Int /\ (~kind.local => First = 0)
  BY <1>1, WindowConf
<1>3. PageFacts(conf.adapter, kind) BY <1>2, PageKinds DEF kind
<1>4. LosesNone => LosesFacts(kind) BY <1>1, LosesNoneMeans
<1>5. kind.overlap \in Nat BY <1>2 DEF KindFacts
<1>c. created \in [Events -> None .. MaxTime] /\ shipped \in [Events -> 0 .. 2] BY DEF TypeOK
<1>6. \A e \in Events : created[e] \in Int /\ shipped[e] \in Nat /\ e \in Nat \ {0}
  <2> TAKE e \in Events
  <2>1. created[e] \in None .. MaxTime /\ shipped[e] \in 0 .. 2 BY <1>c
  <2>2. created[e] \in Int /\ shipped[e] \in Nat BY <2>1 DEF None
  <2>3. e \in Nat \ {0} BY DEF Events
  <2>4. QED BY <2>2, <2>3
<1>7. now \in Nat /\ fails \in Nat /\ fails <= conf.Fails /\ page \in Nat BY <1>2 DEF TypeOK
<1>8. since \in Int /\ until \in Nat /\ last \in Int /\ asked \in Nat /\ start \in Int BY <1>2, <1>7 DEF TypeOK
<1>9. deadline \in Nat BY <1>2 DEF TypeOK
<1>10. /\ until <= now /\ asked <= now /\ (since <= now \/ since = First)
       /\ ~kind.local => last \in Nat /\ last <= now
  BY <1>2, <1>7 DEF TypeOK
<1>11. QED BY <1>2, <1>3, <1>4, <1>5, <1>6, <1>7, <1>8, <1>9, <1>10

\* The situation, and what is claimed of it, stay.
LEMMA SituationStays ==
  ASSUME conf' = conf
  PROVE  /\ kind' = kind /\ (LosesNone' <=> LosesNone) /\ (OnePage' <=> OnePage) /\ (Steady' <=> Steady)
         /\ Round' = Round /\ First' = First
BY DEF kind, LosesNone, OnePage, Steady, Overlapping, Round, First

\* The first state.
LEMMA CoverInit == Init => CoverInv
<1> SUFFICES ASSUME Init PROVE CoverInv OBVIOUS
<1>1. TypeOK BY WindowInit DEF WindowInv
<1>2. /\ conf.Fails \in Nat /\ conf.MaxBusy \in Nat /\ Interval \in Nat BY <1>1, WindowNumbers
<1>3. /\ pc = "wait" /\ now = 0 /\ deadline = Interval /\ asked = 0 /\ fails = conf.Fails /\ page = 1 /\ items = {}
      /\ lastId = 0 /\ last = 0
      /\ \A e \in Events : created[e] = None /\ dedupe[e] = None
  BY DEF Init
<1>4. TimesInv BY <1>2, <1>3 DEF TimesInv
<1>5. DelayInv
  <2>1. (Failed + 1) * Round = Round BY <1>2, <1>3 DEF Failed, Round
  <2>2. Round \in Nat /\ Interval <= Round BY <1>2 DEF Round
  <2>3. QED BY <2>1, <2>2, <1>2, <1>3 DEF DelayInv
<1>6. BackInv BY <1>3 DEF BackInv, InCycle
<1>7. KnownInv BY <1>3 DEF KnownInv
<1>8. PagesInv /\ BehindInv BY <1>3 DEF PagesInv, BehindInv, InCycle
<1>9. QED BY <1>4, <1>5, <1>6, <1>7, <1>8 DEF CoverInv

-----------------------------------------------------------------------------
\* The places of the events of a set are 1, 2, ... in their order.
PlaceIn(W, e) == Cardinality({f \in W : f <= e})

LEMMA PlacesIn ==
  ASSUME NEW W \in SUBSET Events
  PROVE  /\ IsFiniteSet(W) /\ Cardinality(W) \in Nat /\ Cardinality(W) <= N
         /\ \A e \in W : PlaceIn(W, e) \in 1 .. Cardinality(W)
         /\ \A e, f \in W : e < f => PlaceIn(W, e) < PlaceIn(W, f)
         /\ \A i \in 1 .. Cardinality(W) : \E e \in W : PlaceIn(W, e) = i
<1> USE WindowConstants
<1> DEFINE n == Cardinality(W)
           Upto(e) == {f \in W : f <= e}
<1>2. IsFiniteSet(Events) /\ Cardinality(Events) = N BY FS_Interval DEF Events
<1>3. IsFiniteSet(W) /\ n <= N /\ n \in Nat BY <1>2, FS_Subset, FS_CardinalityType
<1>4. \A e \in W : PlaceIn(W, e) = Cardinality(Upto(e)) BY DEF PlaceIn
<1>5. \A e \in W : e \in Nat /\ e \in Upto(e) BY DEF Events
<1>6. ASSUME NEW e \in W PROVE IsFiniteSet(Upto(e)) /\ PlaceIn(W, e) \in 1 .. n
  <2>1. Upto(e) \in SUBSET W OBVIOUS
  <2>2. IsFiniteSet(Upto(e)) /\ Cardinality(Upto(e)) <= n BY <2>1, <1>3, FS_Subset
  <2>3. Cardinality(Upto(e)) \in Nat BY <2>2, FS_CardinalityType
  <2>4. Cardinality(Upto(e)) # 0 BY <2>2, <1>5, FS_EmptySet
  <2>5. QED BY <2>2, <2>3, <2>4, <1>3, <1>4
<1>p. \A e \in W : PlaceIn(W, e) \in Nat /\ IsFiniteSet(Upto(e))
  <2> TAKE e \in W
  <2>1. PlaceIn(W, e) \in 1 .. n BY <1>6
  <2> HIDE DEF n
  <2>2. QED BY ONLY <2>1, <1>3, <1>6
<1>7. ASSUME NEW e \in W, NEW f \in W, e < f PROVE PlaceIn(W, e) < PlaceIn(W, f)
  <2>1. Upto(e) \in SUBSET Upto(f) BY <1>5, <1>7
  <2>2. f \notin Upto(e) BY <1>5, <1>7
  <2>3. IsFiniteSet(Upto(f)) BY <1>6
  <2>4. /\ Cardinality(Upto(e)) <= Cardinality(Upto(f))
        /\ Cardinality(Upto(f)) = Cardinality(Upto(e)) => Upto(f) = Upto(e)
    BY <2>1, <2>3, FS_Subset
  <2>5. Cardinality(Upto(f)) # Cardinality(Upto(e)) BY <2>2, <2>4, <1>5
  <2>6. PlaceIn(W, e) \in Nat /\ PlaceIn(W, f) \in Nat BY <1>p
  <2>7. QED BY <2>4, <2>5, <2>6, <1>4
<1>8. ASSUME NEW i \in 1 .. n PROVE \E e \in W : PlaceIn(W, e) = i
  <2> DEFINE g == [e \in W |-> PlaceIn(W, e)]
  <2>1. g \in [W -> 1 .. n] BY <1>6
  <2>2. \A e, f \in W : g[e] = g[f] => e = f
    <3> SUFFICES ASSUME NEW e \in W, NEW f \in W, g[e] = g[f], e # f PROVE FALSE OBVIOUS
    <3>1. e < f \/ f < e BY <1>5
    <3>2. PlaceIn(W, e) \in Nat /\ PlaceIn(W, f) \in Nat /\ PlaceIn(W, e) = PlaceIn(W, f) BY <1>p
    <3>3. QED BY <3>1, <3>2, <1>7
  <2>3. g \in Injection(W, 1 .. n) BY <2>1, <2>2 DEF Injection, IsInjective
  <2>4. IsFiniteSet(1 .. n) /\ Cardinality(1 .. n) = n BY <1>3, FS_Interval
  <2>5. g \in Surjection(W, 1 .. n) BY <2>3, <2>4, FS_Injection
  <2>6. PICK e \in W : g[e] = i BY <2>5 DEF Surjection
  <2>7. QED BY <2>6
<1>9. QED BY <1>3, <1>6, <1>7, <1>8

\* So are those of a window.
LEMMA Places ==
  /\ IsFiniteSet(Window) /\ Cardinality(Window) \in Nat /\ Cardinality(Window) <= N
  /\ Window \subseteq Events
  /\ \A e \in Window : Place(e) = PlaceIn(Window, e) /\ Place(e) \in 1 .. Cardinality(Window) /\ e \in Nat
  /\ \A e, f \in Window : e < f => Place(e) < Place(f)
  /\ \A i \in 1 .. Cardinality(Window) : \E e \in Window : Place(e) = i
<1>1. Window \in SUBSET Events BY DEF Window
<1>2. \A e : Place(e) = PlaceIn(Window, e) BY DEF Place, PlaceIn
<1>3. \A e \in Events : e \in Nat BY DEF Events
<1>4. QED BY <1>1, <1>2, <1>3, PlacesIn

\* A page is full if and only if the window fills it.
LEMMA FullPage ==
  ASSUME TypeOK, pc = "page", kind.pages # "none"
  PROVE  Cardinality(Answer) = conf.PageSize <=> page * conf.PageSize <= Cardinality(Window)
<1> DEFINE z == conf.PageSize
           b == (page - 1) * z
           T == Answer
           n == Cardinality(Window)
<1>1. z \in Nat \ {0} /\ page \in Nat /\ page > 0 BY WindowNumbers DEF TypeOK
<1>2. b \in Nat /\ page * z = b + z BY <1>1
<1>3. T = {e \in Window : b < Place(e) /\ Place(e) <= b + z} BY <1>2 DEF Answer
<1>4. /\ n \in Nat /\ IsFiniteSet(Window)
      /\ \A e \in Window : Place(e) \in 1 .. n /\ e \in Nat
      /\ \A e, f \in Window : e < f => Place(e) < Place(f)
      /\ \A i \in 1 .. n : \E e \in Window : Place(e) = i
  BY Places, WindowNumbers
<1> HIDE DEF T, b, n
<1> DEFINE g == [e \in T |-> Place(e) - b]
<1>5. g \in [T -> 1 .. z]
  <2>1. \A e \in T : Place(e) - b \in 1 .. z BY <1>1, <1>2, <1>3, <1>4
  <2>2. QED BY <2>1
<1>6. \A e, f \in T : g[e] = g[f] => e = f
  <2> SUFFICES ASSUME NEW e \in T, NEW f \in T, g[e] = g[f], e # f PROVE FALSE OBVIOUS
  <2>1. e \in Window /\ f \in Window /\ (e < f \/ f < e) BY <1>3, <1>4
  <2>2. Place(e) \in Nat /\ Place(f) \in Nat BY <2>1, <1>4
  <2>3. Place(e) = Place(f) BY <2>2, <1>2
  <2>4. QED BY <2>1, <2>2, <2>3, <1>4
<1>7. g \in Injection(T, 1 .. z) BY <1>5, <1>6 DEF Injection, IsInjective
<1>8. IsFiniteSet(1 .. z) /\ Cardinality(1 .. z) = z BY <1>1, FS_Interval
<1>9. Cardinality(T) = z <=> g \in Surjection(T, 1 .. z) BY <1>7, <1>8, FS_Injection
<1>10. g \in Surjection(T, 1 .. z) => b + z <= n
  <2> SUFFICES ASSUME g \in Surjection(T, 1 .. z) PROVE b + z <= n OBVIOUS
  <2>1. z \in 1 .. z BY <1>1
  <2>2. PICK e \in T : g[e] = z BY <2>1 DEF Surjection
  <2>3. e \in Window /\ Place(e) - b = z BY <2>2, <1>3
  <2>4. QED BY <2>3, <1>1, <1>2, <1>4
<1>11. b + z <= n => g \in Surjection(T, 1 .. z)
  <2> SUFFICES ASSUME b + z <= n, NEW i \in 1 .. z PROVE \E e \in T : g[e] = i BY <1>5 DEF Surjection
  <2>1. b + i \in 1 .. n BY <1>1, <1>2, <1>4
  <2>2. PICK e \in Window : Place(e) = b + i BY <2>1, <1>4
  <2>3. e \in T BY <2>2, <1>1, <1>2, <1>3
  <2>4. g[e] = i BY <2>2, <2>3, <1>2
  <2>5. QED BY <2>3, <2>4
<1>12. QED BY <1>2, <1>9, <1>10, <1>11 DEF T, n

\* Whether more pages follow, for an adapter that asks for them.
LEMMA MorePages ==
  ASSUME TypeOK, pc = "page"
  PROVE  /\ More => page * conf.PageSize <= Cardinality(Window)
         /\ ~More /\ kind.pages \in {"all", "each"} => Cardinality(Window) <= page * conf.PageSize
<1>1. page * conf.PageSize \in Nat /\ Cardinality(Window) \in Nat BY WindowNumbers, Places
<1>2. kind.pages \in {"all", "each"} => (Cardinality(Answer) = conf.PageSize <=> page * conf.PageSize <= Cardinality(Window))
  BY FullPage
<1>3. QED BY <1>1, <1>2 DEF More

-----------------------------------------------------------------------------
\* A product of numbers grows with each factor.
LEMMA Products ==
  ASSUME NEW j \in Nat, NEW k \in Nat, NEW d \in Nat, j <= k
  PROVE  j * d \in Nat /\ k * d \in Nat /\ j * d <= k * d /\ (k + 1) * d = k * d + d
<1>1. k - j \in Nat /\ k = j + (k - j) OBVIOUS
<1>2. PICK m \in Nat : k = j + m BY <1>1
<1>3. m * d \in Nat /\ j * d \in Nat /\ k * d = j * d + m * d BY <1>2
<1>4. QED BY <1>3

\* What nobody has taken yet of an answer is new.
LEMMA AnswerTaken ==
  ASSUME WindowInv, CoverInv, LosesNone, pc = "page", NEW e \in Answer, e \notin New
  PROVE  Taken(e)
<1>t. TypeOK /\ LaterInv BY DEF WindowInv, SeenInv
<1>n. KindFacts(kind) /\ since \in Int /\ last \in Int /\ \A f \in Events : created[f] \in Int BY <1>t, WindowNumbers
<1>e. e \in Events /\ created[e] # None BY DEF Answer, Window
<1>k. KnownInv BY DEF CoverInv
<1>1. CASE kind.new = "unseen" BY <1>1, <1>e, <1>k DEF New, KnownInv
<1>2. CASE kind.new = "unseenLater"
  <2>1. dedupe[e] # None \/ ~(created[e] > since) BY <1>2 DEF New
  <2>2. since <= last BY <1>2, <1>t DEF LaterInv
  <2>3. dedupe[e] # None \/ created[e] <= last BY <2>1, <2>2, <1>n, <1>e
  <2>4. QED BY <2>3, <1>2, <1>e, <1>k DEF KnownInv
<1>3. CASE kind.new = "notLast"
  <2>1. e = lastId BY <1>3 DEF New
  <2>2. lastId # 0 BY <2>1, <1>e DEF Events
  <2>3. QED BY <2>1, <2>2, <1>3, <1>k DEF KnownInv
<1>4. CASE kind.new = "any" BY <1>4 DEF New
<1>5. QED BY <1>1, <1>2, <1>3, <1>4, <1>n DEF KindFacts

\* With a page, what comes up to its end is taken.
LEMMA PageTaken ==
  ASSUME WindowInv, CoverInv, LosesNone, pc = "page", NEW e \in Window,
         Place(e) <= page * conf.PageSize \/ e \in Answer
  PROVE  Taken(e) \/ e \in New
<1>t. TypeOK BY DEF WindowInv
<1>n. page \in Nat /\ conf.PageSize \in Nat \ {0} BY <1>t, WindowNumbers
<1>1. CASE e \in Answer BY <1>1, AnswerTaken
<1>2. CASE e \notin Answer
  <2>1. kind.pages # "none" /\ ~((page - 1) * conf.PageSize < Place(e)) BY <1>2 DEF Answer
  <2>2. Place(e) \in Nat
    <3>1. Place(e) \in 1 .. Cardinality(Window) /\ Cardinality(Window) \in Nat BY Places
    <3>2. QED BY <3>1
  <2>3. (page - 1) * conf.PageSize \in Int BY <1>n
  <2>4. Place(e) <= (page - 1) * conf.PageSize BY <2>1, <2>2, <2>3
  <2>5. InCycle BY DEF InCycle
  <2>6. QED BY <2>4, <2>5 DEF CoverInv, PagesInv
<1>3. QED BY <1>1, <1>2

\* Without ties, what is no newer than the newest new event is taken with it.
LEMMA UptoNewestTaken ==
  ASSUME WindowInv, CoverInv, LosesNone, pc = "page", kind.new = "unseenLater", New # {},
         NEW e \in Events, created[e] # None, created[e] <= created[Newest(New)]
  PROVE  Taken(e) \/ e \in New
<1>t. TypeOK /\ PublishedInOrder BY DEF WindowInv
<1>n. /\ page \in Nat /\ conf.PageSize \in Nat \ {0} /\ start \in Int
      /\ \A f \in Events : created[f] \in Int /\ f \in Nat
      /\ KindFacts(kind) /\ PageFacts(conf.adapter, kind) /\ LosesFacts(kind) /\ (~kind.local => First = 0)
  BY <1>t, WindowNumbers
<1>k. kind.bounded = FALSE /\ kind.pages = "all" /\ ~conf.Ties BY <1>n DEF KindFacts, PageFacts, LosesFacts
<1> DEFINE m == Newest(New)
<1>1. m \in New BY NewestIsLatest
<1>2. m \in Answer /\ m \in Window /\ m \in Events BY <1>1, AnswerFacts
<1>3. created[m] # None BY <1>2, AnswerFacts
<1>4. created[e] <= created[m] OBVIOUS
<1> HIDE DEF m
<1>5. ~(m < e) BY <1>2, <1>4, <1>k, <1>n, <1>t DEF PublishedInOrder
<1>6. CASE created[e] < start
  <2>1. InCycle BY DEF InCycle
  <2>2. First = 0 BY <1>n DEF KindFacts
  <2>3. First <= created[e] BY <2>2, <1>n DEF CoverInv, TimesInv
  <2>4. QED BY <2>1, <2>3, <1>6 DEF CoverInv, PagesInv, Taken
<1>7. CASE ~(created[e] < start)
  <2>1. e \in Window BY <1>7, <1>k, <1>n DEF Window
  <2>2. Place(e) \in Nat /\ Place(m) \in Nat
    <3>1. /\ Place(e) \in 1 .. Cardinality(Window) /\ Place(m) \in 1 .. Cardinality(Window)
          /\ Cardinality(Window) \in Nat
      BY <2>1, <1>2, Places
    <3>2. QED BY <3>1
  <2>3. Place(e) <= Place(m)
    <3>1. CASE e = m BY <3>1, <2>2
    <3>2. CASE e < m BY <3>2, <2>1, <2>2, <1>2, Places
    <3>3. QED BY <3>1, <3>2, <1>5, <1>2, <1>n
  <2>4. Place(m) <= page * conf.PageSize BY <1>2, <1>k DEF Answer
  <2>5. page * conf.PageSize \in Nat BY <1>n
  <2>6. Place(e) <= page * conf.PageSize BY <2>2, <2>3, <2>4, <2>5
  <2>7. QED BY <2>1, <2>6, PageTaken
<1>8. QED BY <1>6, <1>7

\* After a last page, what the window holds is taken.
LEMMA LastPageTaken ==
  ASSUME WindowInv, CoverInv, LosesNone, pc = "page", ~More, NEW e \in Window
  PROVE  Taken(e) \/ e \in New
<1>t. TypeOK /\ PageInv BY DEF WindowInv
<1>n. /\ page \in Nat /\ conf.PageSize \in Nat \ {0} /\ KindFacts(kind) /\ LosesFacts(kind) /\ N \in Nat
  BY <1>t, WindowNumbers, WindowConstants
<1>p. Place(e) \in Nat /\ Place(e) <= Cardinality(Window) /\ Cardinality(Window) \in Nat /\ Cardinality(Window) <= N
  <2>1. Place(e) \in 1 .. Cardinality(Window) /\ Cardinality(Window) \in Nat /\ Cardinality(Window) <= N BY Places
  <2>2. QED BY <2>1
<1>1. CASE kind.pages = "none"
  <2>1. e \in Answer BY <1>1 DEF Answer
  <2>2. QED BY <2>1, PageTaken
<1>2. CASE kind.pages = "first"
  <2>1. page = 1 /\ N < conf.PageSize BY <1>2, <1>n, <1>t DEF PageInv, LosesFacts, OnePage
  <2>2. page * conf.PageSize = conf.PageSize BY <2>1, <1>n
  <2>3. Place(e) <= page * conf.PageSize BY <2>1, <2>2, <1>p, <1>n
  <2>4. QED BY <2>3, PageTaken
<1>3. CASE kind.pages \in {"all", "each"}
  <2>1. Cardinality(Window) <= page * conf.PageSize BY <1>3, <1>t, MorePages
  <2>2. page * conf.PageSize \in Nat BY <1>n
  <2>3. Place(e) <= page * conf.PageSize BY <2>1, <2>2, <1>p
  <2>4. QED BY <2>3, PageTaken
<1>4. QED BY <1>1, <1>2, <1>3, <1>n DEF KindFacts

\* A window that is left as it is.
LEMMA WindowStays ==
  ASSUME UNCHANGED <<conf, created, start, until>>
  PROVE  Window' = Window /\ \A e : Place(e)' = Place(e)
<1>1. Window' = Window BY DEF Window, kind
<1>2. QED BY <1>1 DEF Place

\* An event that is published comes last in a window.
LEMMA WindowGrows ==
  ASSUME WindowInv, NEW p \in Events, Publish(p)
  PROVE  /\ Cardinality(Window) <= Cardinality(Window')
         /\ \A e \in Window' : \/ e \in Window /\ Place(e)' = Place(e)
                               \/ e = p /\ Cardinality(Window) < Place(e)'
<1>t. TypeOK /\ PublishedInOrder BY DEF WindowInv
<1>n. now \in Nat /\ \A e \in Events : created[e] \in Int /\ e \in Nat BY <1>t, WindowNumbers
<1>u. UNCHANGED <<conf, now, start, until>> BY DEF Publish, windowVars
<1>k. kind' = kind BY <1>u DEF kind
<1>c. created[p] = None /\ created' = [created EXCEPT ![p] = now] /\ created \in [Events -> None .. MaxTime]
  BY <1>t DEF Publish, TypeOK
<1>d. \A e \in Events : e # p => created'[e] = created[e] BY <1>c
<1>1. Window \in SUBSET Events /\ Window' \in SUBSET Events BY DEF Window
<1>2. p \notin Window BY <1>c DEF Window
<1>3. Window' \subseteq Window \union {p} BY <1>d, <1>u, <1>k DEF Window
<1>4. Window \subseteq Window' BY <1>2, <1>d, <1>u, <1>k DEF Window
<1>5. \A e \in Window : e < p
  <2> TAKE e \in Window
  <2>1. e \in Events /\ created[e] # None /\ e # p BY <1>1, <1>2 DEF Window
  <2>2. ~(p < e) BY <2>1, <1>c, <1>t DEF PublishedInOrder
  <2>3. QED BY <2>1, <2>2, <1>n
<1>6. IsFiniteSet(Window) /\ IsFiniteSet(Window') /\ Cardinality(Window) \in Nat
  BY <1>1, PlacesIn
<1>7. Cardinality(Window) <= Cardinality(Window') BY <1>4, <1>6, FS_Subset
<1>8. ASSUME NEW e \in Window PROVE Place(e)' = Place(e)
  <2>1. {f \in Window' : f <= e} = {f \in Window : f <= e}
    <3>1. e < p /\ e \in Nat /\ p \in Nat BY <1>1, <1>5, <1>n
    <3>2. ~(p <= e) BY <3>1
    <3>3. QED BY <3>2, <1>3, <1>4
  <2>2. QED BY <2>1 DEF Place
<1>9. ASSUME p \in Window' PROVE Cardinality(Window) < Place(p)'
  <2>1. {f \in Window' : f <= p} = Window \union {p}
    <3>1. \A f \in Window : f <= p /\ p <= p BY <1>1, <1>5, <1>n
    <3>2. p <= p BY <1>n
    <3>3. QED BY <3>1, <3>2, <1>3, <1>4, <1>9
  <2>2. Cardinality(Window \union {p}) = Cardinality(Window) + 1 BY <1>2, <1>6, FS_AddElement
  <2>3. Place(p)' = Cardinality({f \in Window' : f <= p}) BY DEF Place
  <2>4. Place(p)' = Cardinality(Window) + 1 BY <2>1, <2>2, <2>3
  <2>5. QED BY ONLY <2>4, <1>6
<1>10. QED BY <1>3, <1>7, <1>8, <1>9

-----------------------------------------------------------------------------
\* Steps that take nothing, ship nothing, and leave the window.
LEMMA CoverQuiet ==
  ASSUME WindowInv, CoverInv,
         UNCHANGED <<conf, created, deadline, since, lastId, start, until, last, dedupe, page, items, fails, shipped, asked>>,
         isStop => isStop', pc' # "ended" => now' <= deadline,
         \/ pc' \in {pc, "ended"}
         \/ pc = "ship" /\ page > 0 /\ items = {} /\ ~isStop /\ pc' = "page"
  PROVE CoverInv'
<1>k. kind' = kind /\ (LosesNone' <=> LosesNone) /\ (OnePage' <=> OnePage) /\ Round' = Round /\ First' = First
  BY SituationStays
<1>c. TimesInv /\ DelayInv /\ BackInv /\ KnownInv /\ PagesInv /\ BehindInv BY DEF CoverInv
<1>p. page > 0 => page # 0 OBVIOUS
<1>i. InCycle' => InCycle BY <1>p DEF InCycle
<1>l. Live' => Live BY DEF Live
<1>T. \A e : (Taken(e)' <=> Taken(e)) /\ (Settled(e) /\ pc' # "ended" => Settled(e)')
  BY <1>p DEF Taken, Settled
<1>1. TimesInv' BY <1>c, <1>k, <1>p DEF TimesInv
<1>2. DelayInv'
  <2>1. Failed' = Failed BY DEF Failed
  <2>2. pc' = "page" => pc = "page" \/ kind.pages = "each" BY <1>p DEF WindowInv, PageInv
  <2>3. kind.from = "overlap" => kind.pages # "each"
    <3>1. KindFacts(kind) BY WindowNumbers DEF WindowInv
    <3>2. QED BY <3>1 DEF KindFacts
  <2>4. QED BY <2>1, <2>2, <2>3, <1>c, <1>k DEF DelayInv
<1>3. BackInv' BY <1>c, <1>k, <1>i DEF BackInv
<1>4. KnownInv' BY <1>c, <1>k, <1>T DEF KnownInv
<1>5. PagesInv'
  <2>1. Window' = Window /\ \A e : Place(e)' = Place(e) BY WindowStays
  <2>2. QED BY <2>1, <1>c, <1>k, <1>i, <1>T DEF PagesInv
<1>6. BehindInv'
  <2>1. Live' => pc' # "ended" BY DEF Live
  <2>2. QED BY <2>1, <1>c, <1>k, <1>l, <1>T DEF BehindInv
<1>7. QED BY <1>1, <1>2, <1>3, <1>4, <1>5, <1>6 DEF CoverInv

\* An event is published: later than all that has been asked for.
LEMMA CoverPublish == ASSUME WindowInv, CoverInv, NEW p \in Events, Publish(p) PROVE CoverInv'
<1>t. TypeOK /\ PublishedInOrder BY DEF WindowInv
<1>u. UNCHANGED <<conf, now, pc, deadline, since, lastId, start, until, last, dedupe, page, items, fails, isStop, closer,
                  shipped, asked>>
  BY DEF Publish, windowVars
<1>k. kind' = kind /\ (LosesNone' <=> LosesNone) /\ (OnePage' <=> OnePage) /\ Round' = Round /\ First' = First
  BY <1>u, SituationStays
<1>c. TimesInv /\ DelayInv /\ BackInv /\ KnownInv /\ PagesInv /\ BehindInv BY DEF CoverInv
<1>n. /\ now \in Nat /\ start \in Int /\ (start <= now \/ start = First) /\ since \in Int /\ (since <= now \/ since = First)
      /\ asked \in Nat /\ asked <= now /\ First \in Int
      /\ kind.new = "unseenLater" => last \in Nat /\ last <= now
      /\ \A e \in Events : created[e] \in Int /\ e \in Nat
  <2>1. start <= now \/ start = First
    <3>1. now \in Nat BY <1>t, WindowNumbers
    <3>2. QED BY <3>1, <1>t, WindowConstants DEF TypeOK
  <2>2. kind.new = "unseenLater" => ~kind.local
    <3>1. KindFacts(kind) BY <1>t, WindowNumbers
    <3>2. QED BY <3>1 DEF KindFacts
  <2>3. QED BY <2>1, <2>2, <1>t, WindowNumbers
<1>b. created[p] = None /\ now > 0 /\ created' = [created EXCEPT ![p] = now]
      /\ (p > 1 => created[p - 1] # None /\ (created[p - 1] < now \/ conf.Ties))
  BY DEF Publish
<1>d. created'[p] = now /\ \A e \in Events : e # p => created'[e] = created[e]
  <2>1. created \in [Events -> None .. MaxTime] BY <1>t DEF TypeOK
  <2>2. QED BY <2>1, <1>b
<1>T. \A e : (Taken(e)' <=> Taken(e)) /\ (Settled(e)' <=> Settled(e)) BY <1>u DEF Taken, Settled
<1>i. (InCycle' <=> InCycle) /\ (Live' <=> Live) /\ Failed' = Failed BY <1>u DEF InCycle, Live, Failed
<1>e. \A e \in Events : created'[e] \in Int /\ (created'[e] # None => created'[e] > 0) BY <1>c, <1>d, <1>b, <1>n DEF TimesInv
<1>1. TimesInv'
  <2>1. kind.new = "unseenLater" => last = 0 \/ \E m \in Events : created'[m] = last
    <3> SUFFICES ASSUME kind.new = "unseenLater", last # 0 PROVE \E m \in Events : created'[m] = last OBVIOUS
    <3>1. PICK m \in Events : created[m] = last BY <1>c DEF TimesInv
    <3>2. m # p BY <3>1, <1>b, <1>n DEF None
    <3>3. QED BY <3>1, <3>2, <1>d
  <2>2. QED BY <2>1, <1>e, <1>c, <1>u, <1>k DEF TimesInv
<1>2. DelayInv' /\ BackInv' BY <1>c, <1>k, <1>u, <1>i DEF DelayInv, BackInv
<1>4. KnownInv'
  <2> SUFFICES ASSUME LosesNone, kind.new = "unseenLater", created'[p] <= last PROVE FALSE
    BY <1>c, <1>k, <1>u, <1>T, <1>d DEF KnownInv
  <2>1. ~conf.Ties
    <3>1. LosesFacts(kind) BY <1>t, WindowNumbers
    <3>2. QED BY <3>1 DEF LosesFacts
  <2>2. last = now /\ last # 0 BY <1>d, <1>n, <1>b
  <2>3. PICK m \in Events : created[m] = now BY <2>2, <1>c DEF TimesInv
  <2>4. m # p /\ created[m] # None /\ p \in Nat /\ m \in Nat BY <2>3, <1>b, <1>n DEF None
  <2>5. ~(p < m) BY <2>4, <1>b, <1>t DEF PublishedInOrder
  <2>6. m < p /\ p > 1 BY <2>4, <2>5 DEF Events
  <2>7. p - 1 \in Events /\ created[p - 1] # None /\ created[p - 1] < now /\ m <= p - 1
    BY <2>1, <2>4, <2>6, <1>b, WindowConstants DEF Events
  <2>8. created[m] <= created[p - 1]
    <3>1. CASE m = p - 1 BY <3>1, <2>7, <1>n
    <3>2. CASE m < p - 1 BY <3>2, <2>7, <1>t DEF PublishedInOrder
    <3>3. QED BY <3>1, <3>2, <2>4, <2>7
  <2>9. QED BY <2>3, <2>7, <2>8, <1>n
<1>5. PagesInv'
  <2> SUFFICES ASSUME LosesNone, InCycle
               PROVE /\ (page - 1) * conf.PageSize <= Cardinality(Window')
                     /\ \A e \in Window' : Place(e)' <= (page - 1) * conf.PageSize => Taken(e)
                     /\ \A e \in Events : created'[e] # None /\ First <= created'[e] /\ created'[e] < start => shipped[e] > 0
    BY <1>k, <1>u, <1>i, <1>T DEF PagesInv, Window
  <2> DEFINE b == (page - 1) * conf.PageSize
  <2>n. page \in Nat /\ conf.PageSize \in Nat BY <1>t, WindowNumbers
  <2>1. b \in Int BY <2>n
  <2>2. /\ b <= Cardinality(Window)
        /\ \A e \in Window : Place(e) <= b => Taken(e)
        /\ \A e \in Events : created[e] # None /\ First <= created[e] /\ created[e] < start => shipped[e] > 0
    BY <1>c DEF PagesInv
  <2>w. Window' \in SUBSET Events BY DEF Window
  <2>3. Cardinality(Window) \in Nat /\ Cardinality(Window') \in Nat BY <2>w, Places, PlacesIn
  <2>4. /\ Cardinality(Window) <= Cardinality(Window')
        /\ \A e \in Window' : \/ e \in Window /\ Place(e)' = Place(e)
                              \/ e = p /\ Cardinality(Window) < Place(e)'
    BY WindowGrows
  <2>5. \A e \in Window' : Place(e)' \in Nat
    <3>1. \A e \in Window' : Place(e)' = PlaceIn(Window', e) BY DEF Place, PlaceIn
    <3>2. \A e \in Window' : PlaceIn(Window', e) \in 1 .. Cardinality(Window') BY <2>w, PlacesIn
    <3>3. QED BY <3>1, <3>2, <2>3
  <2> HIDE DEF b
  <2>6. b <= Cardinality(Window') BY <2>1, <2>2, <2>3, <2>4
  <2>7. \A e \in Window' : Place(e)' <= b => Taken(e) BY <2>1, <2>2, <2>3, <2>4, <2>5
  <2>8. \A e \in Events : created'[e] # None /\ First <= created'[e] /\ created'[e] < start => shipped[e] > 0
    BY <2>2, <1>d, <1>n
  <2>9. QED BY <2>6, <2>7, <2>8 DEF b
<1>6. BehindInv'
  <2>1. ~(created'[p] < asked) /\ (First <= created'[p] => ~(created'[p] < since)) BY <1>d, <1>n
  <2>2. QED BY <2>1, <1>c, <1>k, <1>u, <1>i, <1>T, <1>d DEF BehindInv
<1>7. QED BY <1>1, <1>2, <1>4, <1>5, <1>6 DEF CoverInv

\* A cycle begins: its window starts before, or where, nothing is left behind.
LEMMA CoverRequest == ASSUME WindowInv, CoverInv, Request PROVE CoverInv'
<1>t. TypeOK /\ LaterInv BY DEF WindowInv, SeenInv
<1>u. UNCHANGED <<conf, now, created, since, lastId, dedupe, fails, isStop, closer, shipped, asked>> BY DEF Request
<1>k. kind' = kind /\ (LosesNone' <=> LosesNone) /\ (OnePage' <=> OnePage) /\ Round' = Round /\ First' = First
  BY <1>u, SituationStays
<1>c. TimesInv /\ DelayInv /\ BackInv /\ KnownInv /\ PagesInv /\ BehindInv BY DEF CoverInv
<1>r. pc = "wait" /\ now = deadline /\ pc' = "page" /\ page' = 1 /\ items' = {} /\ start' = WindowStart /\ until' = WindowEnd
      /\ last' = (IF kind.next = "lastNew" /\ kind.new = "unseen" THEN 0 ELSE since) /\ deadline' = now + conf.MaxBusy
  BY DEF Request, FirstPage
<1>n. /\ now \in Nat /\ since \in Int /\ asked \in Nat /\ deadline \in Nat /\ conf.MaxBusy \in Nat /\ Interval \in Nat
      /\ conf.PageSize \in Nat /\ fails \in Nat /\ fails <= conf.Fails /\ conf.Fails \in Nat /\ kind.overlap \in Nat
      /\ KindFacts(kind) /\ PageFacts(conf.adapter, kind) /\ (LosesNone => LosesFacts(kind))
      /\ \A e \in Events : created[e] \in Int /\ shipped[e] \in Nat
  BY <1>t, WindowNumbers
<1>i. items = {} BY <1>r, <1>t DEF TypeOK
<1>T. \A e : Taken(e)' <=> Taken(e) BY <1>r, <1>i, <1>u DEF Taken
<1>S. \A e : (Settled(e) <=> shipped[e] > 0) /\ (Settled(e)' <=> shipped[e] > 0) BY <1>r, <1>u DEF Settled
<1>1. TimesInv'
  <2>1. kind.from # "margin" => until' = now BY <1>r DEF WindowEnd
  <2>2. kind.new = "unseenLater" => last' = since /\ since = last BY <1>r, <1>t DEF LaterInv
  <2>3. now <= deadline' BY <1>r, <1>n
  <2>4. QED BY <2>1, <2>2, <2>3, <1>c, <1>r, <1>u, <1>k DEF TimesInv
<1>2. DelayInv'
  <2>1. Failed' = Failed BY <1>u DEF Failed
  <2>2. Failed \in Nat /\ Round \in Nat /\ (Failed + 1) * Round \in Nat BY <1>n DEF Failed, Round
  <2>3. QED BY <2>1, <2>2, <1>c, <1>r, <1>u, <1>k, <1>n DEF DelayInv
<1>3. BackInv' BY <1>c, <1>r, <1>u, <1>k DEF BackInv, InCycle
<1>4. KnownInv'
  <2>1. kind.new = "unseenLater" => last' = last BY <1>r, <1>t DEF LaterInv
  <2>2. QED BY <2>1, <1>c, <1>k, <1>u, <1>T DEF KnownInv
<1>5. PagesInv'
  <2> SUFFICES ASSUME LosesNone
               PROVE /\ (1 - 1) * conf.PageSize <= Cardinality(Window')
                     /\ \A e \in Window' : Place(e)' <= (1 - 1) * conf.PageSize => Taken(e)'
                     /\ \A e \in Events : created[e] # None /\ First <= created[e] /\ created[e] < start' => shipped[e] > 0
    BY <1>k, <1>u, <1>r DEF PagesInv
  <2>1. (1 - 1) * conf.PageSize = 0 BY <1>n
  <2>w. Window' \in SUBSET Events BY DEF Window
  <2>2. Cardinality(Window') \in Nat BY <2>w, PlacesIn
  <2>3. \A e \in Window' : ~(Place(e)' <= 0)
    <3>1. \A e \in Window' : Place(e)' = PlaceIn(Window', e) BY DEF Place, PlaceIn
    <3>2. \A e \in Window' : PlaceIn(Window', e) \in 1 .. Cardinality(Window') BY <2>w, PlacesIn
    <3>3. QED BY <3>1, <3>2, <2>2
  <2>4. ASSUME NEW e \in Events, created[e] # None, First <= created[e], created[e] < start' PROVE shipped[e] > 0
    <3>1. created[e] > 0 /\ created[e] \in Int BY <2>4, <1>c, <1>n DEF TimesInv
    <3>2. Live BY <1>r DEF Live
    <3>3. created[e] < asked \/ (kind.from # "all" /\ created[e] < since) => shipped[e] > 0
      BY <3>2, <2>4, <1>c, <1>S DEF BehindInv
    <3>4. CASE kind.from = "all" BY <3>1, <3>4, <2>4, <1>r DEF WindowStart
    <3>5. CASE kind.from = "since" BY <3>3, <3>5, <2>4, <1>r DEF WindowStart
    <3>6. CASE kind.from = "margin"
      <4>1. start' = since - kind.overlap BY <3>6, <1>r DEF WindowStart
      <4>2. created[e] < since BY <4>1, <3>1, <2>4, <1>n
      <4>3. QED BY <4>2, <3>3, <3>6
    <3>7. CASE kind.from = "overlap"
      <4>1. start' = Later(now - kind.overlap, since) BY <3>7, <1>r DEF WindowStart
      <4>2. CASE start' = since BY <4>2, <3>3, <3>7, <2>4
      <4>3. CASE start' = now - kind.overlap
        <5>1. now <= asked + (Failed + 1) * Round BY <3>7, <1>r, <1>c DEF DelayInv
        <5>2. (conf.Fails + 1) * Round <= kind.overlap
          <6>1. Overlapping BY <3>7, <1>n DEF LosesFacts
          <6>2. QED BY <6>1 DEF Overlapping, Round
        <5>3. Failed + 1 \in Nat /\ conf.Fails + 1 \in Nat /\ Failed + 1 <= conf.Fails + 1 /\ Round \in Nat
          BY <1>n DEF Failed, Round
        <5> DEFINE x == Failed + 1
                   y == conf.Fails + 1
        <5> HIDE DEF x, y
        <5>4. x * Round \in Nat /\ y * Round \in Nat /\ x * Round <= y * Round BY <5>3, Products DEF x, y
        <5>5. now <= asked + x * Round /\ y * Round <= kind.overlap BY <5>1, <5>2 DEF x, y
        <5>6. created[e] < asked BY <5>4, <5>5, <4>3, <3>1, <2>4, <1>n
        <5>7. QED BY <5>6, <3>3
      <4>4. QED BY <4>1, <4>2, <4>3 DEF Later
    <3>8. QED BY <3>4, <3>5, <3>6, <3>7, <1>n DEF KindFacts
  <2>5. QED BY <2>1, <2>2, <2>3, <2>4
<1>6. BehindInv'
  <2>1. Live BY <1>r DEF Live
  <2>2. QED BY <2>1, <1>c, <1>k, <1>u, <1>S DEF BehindInv
<1>7. QED BY <1>1, <1>2, <1>3, <1>4, <1>5, <1>6 DEF CoverInv

\* An event is shipped.
LEMMA CoverShip == ASSUME WindowInv, CoverInv, NEW s \in Events, Ship(s) PROVE CoverInv'
<1>t. TypeOK BY DEF WindowInv
<1>u. UNCHANGED <<conf, now, created, pc, deadline, since, lastId, start, until, last, dedupe, page, fails, isStop, closer, asked>>
  BY DEF Ship, windowVars
<1>k. kind' = kind /\ (LosesNone' <=> LosesNone) /\ (OnePage' <=> OnePage) /\ Round' = Round /\ First' = First
  BY <1>u, SituationStays
<1>c. TimesInv /\ DelayInv /\ BackInv /\ KnownInv /\ PagesInv /\ BehindInv BY DEF CoverInv
<1>r. pc = "ship" /\ s \in items /\ items' = items \ {s} /\ shipped' = [shipped EXCEPT ![s] = IF @ = 2 THEN 2 ELSE @ + 1]
  BY DEF Ship
<1>s. shipped'[s] > 0 /\ \A e : e # s => shipped'[e] = shipped[e]
  <2>1. shipped \in [Events -> 0 .. 2] BY <1>t DEF TypeOK
  <2>2. QED BY <1>r, <2>1
<1>T. \A e : (Taken(e)' <=> Taken(e)) /\ (Settled(e) => Settled(e)') /\ (shipped[e] > 0 => shipped'[e] > 0)
  BY <1>r, <1>s, <1>u DEF Taken, Settled
<1>i. (InCycle' <=> InCycle) /\ (Live' <=> Live) /\ Failed' = Failed BY <1>u DEF InCycle, Live, Failed
<1>1. TimesInv' /\ DelayInv' BY <1>c, <1>k, <1>u, <1>i DEF TimesInv, DelayInv
<1>2. BackInv' BY <1>c, <1>k, <1>u, <1>i, <1>r DEF BackInv
<1>3. KnownInv' BY <1>c, <1>k, <1>u, <1>T DEF KnownInv
<1>4. PagesInv'
  <2>1. Window' = Window /\ \A e : Place(e)' = Place(e) BY <1>u, WindowStays
  <2>2. QED BY <2>1, <1>c, <1>k, <1>u, <1>i, <1>T DEF PagesInv
<1>5. BehindInv' BY <1>c, <1>k, <1>u, <1>i, <1>T DEF BehindInv
<1>6. QED BY <1>1, <1>2, <1>3, <1>4, <1>5 DEF CoverInv

\* A cycle has shipped all that it found.
LEMMA CoverShippedAll == ASSUME WindowInv, CoverInv, ShippedAll PROVE CoverInv'
<1>t. TypeOK BY DEF WindowInv
<1>u. UNCHANGED <<conf, now, created, lastId, start, until, last, dedupe, page, items, fails, isStop, closer, shipped, asked>>
  BY DEF ShippedAll
<1>k. kind' = kind /\ (LosesNone' <=> LosesNone) /\ (OnePage' <=> OnePage) /\ Round' = Round /\ First' = First
  BY <1>u, SituationStays
<1>c. TimesInv /\ DelayInv /\ BackInv /\ KnownInv /\ PagesInv /\ BehindInv BY DEF CoverInv
<1>r. pc = "ship" /\ items = {} /\ page = 0 /\ since' = Checkpoint /\ pc' = (IF isStop THEN "ended" ELSE "wait")
      /\ deadline' = now + Interval
  BY DEF ShippedAll, Wait
<1>n. /\ now \in Nat /\ deadline \in Nat /\ until \in Nat /\ asked \in Nat /\ conf.MaxBusy \in Nat /\ Interval \in Nat
      /\ fails \in Nat /\ fails <= conf.Fails /\ conf.Fails \in Nat
      /\ KindFacts(kind) /\ PageFacts(conf.adapter, kind) /\ (LosesNone => LosesFacts(kind))
      /\ \A e \in Events : created[e] \in Int
  BY <1>t, WindowNumbers
<1>T. \A e : (Taken(e)' <=> Taken(e)) /\ (Settled(e) => shipped[e] > 0) /\ (Settled(e)' <=> shipped[e] > 0)
  BY <1>u, <1>r DEF Taken, Settled
<1>d. asked = until /\ now <= deadline /\ (kind.from # "margin" => deadline = until + conf.MaxBusy) BY <1>r, <1>c DEF TimesInv
<1>1. TimesInv'
  <2>1. now <= deadline' BY <1>r, <1>n
  <2>2. QED BY <2>1, <1>c, <1>k, <1>u, <1>r DEF TimesInv
<1>2. DelayInv'
  <2> SUFFICES ASSUME kind.from = "overlap" PROVE deadline' <= asked + (Failed + 1) * Round
    BY <1>k, <1>u, <1>r DEF DelayInv, Failed
  <2>1. Failed \in Nat /\ Round \in Nat /\ now + Interval <= asked + Round BY <1>d, <1>n DEF Failed, Round
  <2>2. (Failed + 1) * Round = Failed * Round + Round /\ Failed * Round \in Nat BY <2>1
  <2>3. QED BY <2>1, <2>2, <1>r, <1>n
<1>3. BackInv' BY <1>c, <1>k, <1>u, <1>r DEF BackInv, InCycle
<1>4. KnownInv' BY <1>c, <1>k, <1>u, <1>T DEF KnownInv
<1>5. PagesInv' BY <1>r DEF PagesInv, InCycle
<1>6. BehindInv'
  <2> SUFFICES ASSUME LosesNone, ~isStop, NEW e \in Events, created[e] # None, First <= created[e],
                      created[e] < asked \/ (kind.from # "all" /\ created[e] < Checkpoint)
               PROVE shipped[e] > 0
    BY <1>k, <1>u, <1>r, <1>T DEF BehindInv, Live
  <2>1. Live BY <1>r DEF Live
  <2>2. created[e] < asked \/ (kind.from # "all" /\ created[e] < since) => shipped[e] > 0
    BY <2>1, <1>c, <1>T DEF BehindInv
  <2>3. CASE kind.next = "now"
    <3>1. conf.MaxBusy = 0 /\ kind.from # "margin" BY <2>3, <1>n DEF LosesFacts, KindFacts
    <3>2. Checkpoint = now /\ now <= asked BY <3>1, <2>3, <1>d, <1>n DEF Checkpoint
    <3>3. created[e] < asked BY <3>2, <1>n
    <3>4. QED BY <3>3, <2>2
  <2>4. CASE kind.next = "until"
    <3>1. Checkpoint = asked BY <2>4, <1>d DEF Checkpoint
    <3>2. QED BY <3>1, <2>2
  <2>5. CASE kind.next \notin {"now", "until"}
    <3>1. Checkpoint = since BY <2>5 DEF Checkpoint
    <3>2. QED BY <3>1, <2>2
  <2>6. QED BY <2>3, <2>4, <2>5
<1>7. QED BY <1>1, <1>2, <1>3, <1>4, <1>5, <1>6 DEF CoverInv

\* A situation with one page has no second one.
LEMMA NoSecondPage == ASSUME WindowInv, OnePage, pc = "page" PROVE ~More
<1>t. TypeOK BY DEF WindowInv
<1>n. page \in Nat /\ page > 0 /\ conf.PageSize \in Nat /\ N \in Nat BY <1>t, WindowNumbers, WindowConstants DEF TypeOK
<1>1. PICK j \in Nat : page = j + 1
  <2>1. page - 1 \in Nat /\ page = (page - 1) + 1 BY <1>n
  <2>2. QED BY <2>1
<1>2. page * conf.PageSize = j * conf.PageSize + conf.PageSize /\ j * conf.PageSize \in Nat BY <1>1, <1>n
<1>3. Cardinality(Window) \in Nat /\ Cardinality(Window) <= N BY Places
<1>4. ~(page * conf.PageSize <= Cardinality(Window)) BY <1>2, <1>3, <1>n DEF OnePage
<1>5. QED BY <1>4, <1>t, MorePages

\* What is kept after a page: the map and the time tell of taken events only.
LEMMA PageKnown ==
  ASSUME WindowInv, CoverInv, LosesNone, pc = "page"
  PROVE  /\ \A e \in Events : Stamped[e] # None \/ Cull(Stamped)[e] # None => Taken(e) \/ e \in New
         /\ kind.new = "unseenLater" =>
              \A e \in Events : created[e] # None /\ created[e] <= LastDetectionTime => Taken(e) \/ e \in New
<1>t. TypeOK BY DEF WindowInv
<1>n. KindFacts(kind) BY <1>t, WindowNumbers
<1>k. KnownInv BY DEF CoverInv
<1>1. ASSUME NEW e \in Events, Stamped[e] # None PROVE Taken(e) \/ e \in New
  <2>1. CASE e \in New BY <2>1
  <2>2. CASE e \notin New
    <3>1. Stamped[e] = dedupe[e] BY <2>2 DEF Stamped
    <3>2. QED BY <3>1, <1>1, <1>k DEF KnownInv
  <2>3. QED BY <2>1, <2>2
<1>2. \A e \in Events : Cull(Stamped)[e] # None => Stamped[e] # None BY StampedFacts
<1>3. ASSUME kind.new = "unseenLater", NEW e \in Events, created[e] # None, created[e] <= LastDetectionTime
      PROVE Taken(e) \/ e \in New
  <2>1. LastDetectionTime = IF New = {} THEN last ELSE Later(last, created[Newest(New)])
    <3>1. kind.next = "newest" BY <1>3, <1>n DEF KindFacts
    <3>2. QED BY <3>1 DEF LastDetectionTime
  <2>2. CASE LastDetectionTime = last BY <2>2, <1>3, <1>k DEF KnownInv
  <2>3. CASE New # {} /\ LastDetectionTime = created[Newest(New)] BY <2>3, <1>3, UptoNewestTaken
  <2>4. QED BY <2>1, <2>2, <2>3 DEF Later
<1>4. QED BY <1>1, <1>2, <1>3

\* The time kept of sublime is that of an event.
LEMMA LastIsOfAnEvent ==
  ASSUME WindowInv, CoverInv, kind.new = "unseenLater"
  PROVE  LastDetectionTime = 0 \/ \E m \in Events : created[m] = LastDetectionTime
<1>1. kind.next = "newest"
  <2>1. KindFacts(kind) BY WindowNumbers DEF WindowInv
  <2>2. QED BY <2>1 DEF KindFacts
<1>2. LastDetectionTime = last \/ (New # {} /\ LastDetectionTime = created[Newest(New)])
  BY <1>1 DEF LastDetectionTime, Later
<1>3. New # {} => Newest(New) \in Events BY NewestIsLatest, AnswerFacts
<1>4. QED BY <1>2, <1>3 DEF CoverInv, TimesInv

\* Where the time kept after a page is not that of a new event, it is the one before.
LEMMA SinceIsKept ==
  ASSUME WindowInv, CoverInv, pc = "page", kind.next # "newest"
  PROVE  \/ kind.next = "lastNew" /\ LastDetectionTime = (IF New = {} THEN since ELSE created[Newest(New)])
         \/ kind.next = "until" /\ kind.pages = "none" /\ LastDetectionTime = until
         \/ kind.next # "lastNew" /\ LastDetectionTime = last /\ last = since
<1>1. InCycle BY DEF InCycle
<1>2. kind.next # "lastNew" => last = since BY <1>1 DEF CoverInv, BackInv
<1>3. CASE kind.next = "lastNew" BY <1>3 DEF LastDetectionTime
<1>4. CASE kind.next = "until" /\ kind.pages = "none" BY <1>4 DEF LastDetectionTime
<1>5. CASE kind.next # "lastNew" /\ ~(kind.next = "until" /\ kind.pages = "none")
  <2>1. LastDetectionTime = last BY <1>5 DEF LastDetectionTime
  <2>2. QED BY <2>1, <1>2, <1>5
<1>6. QED BY <1>3, <1>4, <1>5

\* A page that others follow.
LEMMA CoverGetPage == ASSUME WindowInv, CoverInv, GetPage PROVE CoverInv'
<1>t. TypeOK BY DEF WindowInv
<1>u. UNCHANGED <<conf, now, created, deadline, since, lastId, start, until, fails, isStop, closer, shipped, asked>>
  BY DEF GetPage
<1>k. kind' = kind /\ (LosesNone' <=> LosesNone) /\ (OnePage' <=> OnePage) /\ Round' = Round /\ First' = First
  BY <1>u, SituationStays
<1>c. TimesInv /\ DelayInv /\ BackInv /\ KnownInv /\ PagesInv /\ BehindInv BY DEF CoverInv
<1>r. /\ pc = "page" /\ More /\ items' = items \union New /\ dedupe' = Stamped /\ last' = LastDetectionTime
      /\ page' = page + 1 /\ pc' = IF kind.pages = "each" THEN "ship" ELSE "page"
  BY DEF GetPage
<1>o. ~OnePage BY <1>r, NoSecondPage
<1>n. /\ page \in Nat /\ page > 0 /\ conf.PageSize \in Nat /\ KindFacts(kind) /\ PageFacts(conf.adapter, kind)
      /\ (LosesNone => LosesFacts(kind))
  BY <1>t, <1>r, WindowNumbers DEF TypeOK
<1>p. page' # 0 /\ page' # 1 /\ page' - 1 = page BY <1>r, <1>n
<1>a. kind.pages \in {"all", "each"} /\ kind.new # "notLast" BY <1>r, <1>n DEF More, KindFacts
<1>T. \A e : Taken(e)' <=> Taken(e) \/ e \in New BY <1>r, <1>u DEF Taken
<1>1. TimesInv'
  <2>1. kind.new = "unseenLater" => last' = 0 \/ \E m \in Events : created[m] = last' BY <1>r, LastIsOfAnEvent
  <2>2. QED BY <2>1, <1>c, <1>k, <1>u, <1>r, <1>p DEF TimesInv
<1>2. DelayInv' BY <1>c, <1>k, <1>u, <1>r DEF DelayInv, Failed
<1>3. BackInv'
  <2>1. kind.stamp = "none" => dedupe' = [e \in Events |-> dedupe[e]] BY <1>r DEF Stamped
  <2>2. kind.next \notin {"lastNew", "newest"} => last' = since
    BY <1>r, <1>a, SinceIsKept
  <2>3. QED BY <2>1, <2>2, <1>c, <1>k, <1>u, <1>o, <1>p DEF BackInv
<1>4. KnownInv'
  <2>1. LosesNone =>
          /\ \A e \in Events : dedupe'[e] # None => Taken(e) \/ e \in New
          /\ kind.new = "unseenLater" => \A e \in Events : created[e] # None /\ created[e] <= last' => Taken(e) \/ e \in New
    BY <1>r, PageKnown
  <2>2. QED BY <2>1, <1>a, <1>k, <1>u, <1>T DEF KnownInv
<1>5. PagesInv'
  <2>1. Window' = Window /\ \A e : Place(e)' = Place(e) BY <1>u, WindowStays
  <2>2. InCycle BY <1>r DEF InCycle
  <2>3. LosesNone => /\ page * conf.PageSize <= Cardinality(Window)
                     /\ \A e \in Window : Place(e) <= page * conf.PageSize => Taken(e) \/ e \in New
    BY <1>r, <1>t, MorePages, PageTaken
  <2>4. LosesNone => \A e \in Events : created[e] # None /\ First <= created[e] /\ created[e] < start => shipped[e] > 0
    BY <2>2, <1>c DEF PagesInv
  <2>5. QED BY <2>1, <2>3, <2>4, <1>k, <1>u, <1>p, <1>T DEF PagesInv
<1>6. BehindInv'
  <2>1. Live BY <1>r DEF Live
  <2>2. \A e : Settled(e) => Settled(e)' BY <1>r, <1>u DEF Settled
  <2>3. QED BY <2>1, <2>2, <1>c, <1>k, <1>u DEF BehindInv
<1>7. QED BY <1>1, <1>2, <1>3, <1>4, <1>5, <1>6 DEF CoverInv

\* The last page of a cycle: the window is covered up to its end.
LEMMA CoverGetLastPage == ASSUME WindowInv, CoverInv, GetLastPage PROVE CoverInv'
<1>t. TypeOK BY DEF WindowInv
<1>u. UNCHANGED <<conf, now, created, deadline, start, until, fails, isStop, closer, shipped>> BY DEF GetLastPage
<1>k. kind' = kind /\ (LosesNone' <=> LosesNone) /\ (OnePage' <=> OnePage) /\ Round' = Round /\ First' = First
  BY <1>u, SituationStays
<1>c. TimesInv /\ DelayInv /\ BackInv /\ KnownInv /\ PagesInv /\ BehindInv BY DEF CoverInv
<1>r. /\ pc = "page" /\ items' = items \union New /\ dedupe' = Cull(Stamped)
      /\ since' = LastDetectionTime /\ last' = LastDetectionTime /\ lastId' = LastId
      /\ page' = 0 /\ pc' = "ship" /\ asked' = until /\ (~More \/ isStop)
  BY DEF GetLastPage
<1>n. /\ start \in Int /\ until \in Nat /\ KindFacts(kind) /\ PageFacts(conf.adapter, kind)
      /\ (LosesNone => LosesFacts(kind)) /\ \A e \in Events : created[e] \in Int /\ shipped[e] \in Nat
  BY <1>t, WindowNumbers
<1>T. \A e : Taken(e)' <=> Taken(e) \/ e \in New BY <1>r, <1>u DEF Taken
<1>1. TimesInv'
  <2>1. kind.new = "unseenLater" => last' = 0 \/ \E m \in Events : created[m] = last' BY <1>r, LastIsOfAnEvent
  <2>2. QED BY <2>1, <1>c, <1>k, <1>u, <1>r DEF TimesInv
<1>2. DelayInv' BY <1>r DEF DelayInv
<1>3. BackInv'
  <2>1. kind.stamp = "none" => \A e \in Events : dedupe'[e] = None
    <3> SUFFICES ASSUME kind.stamp = "none", NEW e \in Events PROVE Cull(Stamped)[e] = None BY <1>r
    <3>1. Stamped[e] = None BY <1>c DEF Stamped, BackInv
    <3>2. QED BY <3>1, StampedFacts
  <2>2. QED BY <2>1, <1>c, <1>k, <1>u, <1>r DEF BackInv, InCycle
<1>4. KnownInv'
  <2> SUFFICES ASSUME LosesNone PROVE KnownInv' BY <1>k DEF KnownInv
  <2>1. /\ \A e \in Events : dedupe'[e] # None => Taken(e) \/ e \in New
        /\ kind.new = "unseenLater" => \A e \in Events : created[e] # None /\ created[e] <= last' => Taken(e) \/ e \in New
    BY <1>r, PageKnown
  <2>2. kind.new = "notLast" /\ lastId' # 0 => Taken(lastId') \/ lastId' \in New
    <3> SUFFICES ASSUME kind.new = "notLast", LastId # 0 PROVE Taken(LastId) \/ LastId \in New BY <1>r, <1>u DEF Taken
    <3>1. Answer # {} /\ LastId = Newest(Answer) BY DEF LastId
    <3>2. LastId \in Answer
      <4>1. Answer \subseteq Events BY AnswerFacts
      <4>2. QED BY <3>1, <4>1, NewestFacts
    <3>3. QED BY <3>2, <1>r, AnswerTaken
  <2>3. Taken(lastId)' <=> Taken(lastId') \/ lastId' \in New BY <1>r, <1>u DEF Taken
  <2>4. QED BY <2>1, <2>2, <2>3, <1>k, <1>u, <1>T DEF KnownInv
<1>5. PagesInv' BY <1>r DEF PagesInv, InCycle
<1>6. BehindInv'
  <2> SUFFICES ASSUME LosesNone, ~isStop, NEW e \in Events, created[e] # None, First <= created[e],
                      created[e] < until \/ (kind.from # "all" /\ created[e] < LastDetectionTime)
               PROVE Taken(e) \/ e \in New
    BY <1>k, <1>u, <1>r, <1>T DEF BehindInv, Live, Settled, Taken
  <2>m. ~More BY <1>r
  <2>c. InCycle /\ Live BY <1>r DEF InCycle, Live
  <2>1. created[e] < start => Taken(e) BY <2>c, <1>c DEF PagesInv, Taken
  <2>2. kind.from # "all" /\ created[e] < since => Taken(e) BY <2>c, <1>c, <1>r DEF BehindInv, Settled, Taken
  <2>3. ~(created[e] < start) /\ (kind.bounded => created[e] <= until) => Taken(e) \/ e \in New
    <3> SUFFICES ASSUME ~(created[e] < start), kind.bounded => created[e] <= until PROVE Taken(e) \/ e \in New OBVIOUS
    <3>1. e \in Window BY <1>n DEF Window
    <3>2. QED BY <3>1, <2>m, <1>r, LastPageTaken
  <2>4. CASE created[e] < until BY <2>1, <2>3, <2>4, <1>n
  <2>5. CASE kind.from # "all" /\ created[e] < LastDetectionTime
    <3>1. kind.next # "newest" BY <2>5, <1>n DEF KindFacts, PageFacts
    <3>2. CASE LastDetectionTime = since BY <3>2, <2>2, <2>5
    <3>3. CASE LastDetectionTime = until BY <3>3, <2>4, <2>5
    <3>4. CASE New # {} /\ LastDetectionTime = created[Newest(New)]
      <4>1. Newest(New) \in Window BY <3>4, NewestIsLatest, AnswerFacts
      <4> DEFINE m == Newest(New)
      <4>2. m \in Events /\ (kind.bounded => created[m] <= until) /\ created[e] < created[m] BY <4>1, <3>4, <2>5 DEF Window
      <4> HIDE DEF m
      <4>3. kind.bounded => created[e] <= until BY <4>2, <1>n
      <4>4. QED BY <4>3, <2>1, <2>3
    <3>5. QED BY <3>1, <3>2, <3>3, <3>4, <1>r, SinceIsKept
  <2>6. QED BY <2>4, <2>5
<1>7. QED BY <1>1, <1>2, <1>3, <1>4, <1>5, <1>6 DEF CoverInv

\* A request fails: where something is never missed, nothing taken is dropped, and the next
\* window starts where this one did.
LEMMA CoverPageFails == ASSUME WindowInv, CoverInv, PageFails PROVE CoverInv'
<1>t. TypeOK /\ PageInv BY DEF WindowInv
<1>u. UNCHANGED <<conf, now, created, start, until, last, dedupe, page, closer, shipped, asked>> BY DEF PageFails
<1>k. kind' = kind /\ (LosesNone' <=> LosesNone) /\ (OnePage' <=> OnePage) /\ Round' = Round /\ First' = First
  BY <1>u, SituationStays
<1>c. TimesInv /\ DelayInv /\ BackInv /\ KnownInv /\ PagesInv /\ BehindInv BY DEF CoverInv
<1>r. /\ pc = "page" /\ (fails > 0 \/ Rejected) /\ fails' = (IF Rejected THEN fails ELSE fails - 1) /\ items' = {}
      /\ since' = (IF kind.pages = "each" /\ page > 1 THEN until ELSE last) /\ lastId' = 0
      /\ pc' \in {"wait", "ended"} /\ deadline' = now + Interval
  BY DEF PageFails, Wait
<1>n. /\ now \in Nat /\ asked \in Nat /\ deadline \in Nat /\ conf.MaxBusy \in Nat /\ Interval \in Nat
      /\ fails \in Nat /\ fails <= conf.Fails /\ conf.Fails \in Nat /\ page \in Nat /\ page > 0
      /\ KindFacts(kind) /\ PageFacts(conf.adapter, kind) /\ (LosesNone => LosesFacts(kind))
  BY <1>t, <1>r, WindowNumbers DEF TypeOK
<1>j. Rejected => kind.rejected = TRUE /\ page > 1
  <2>1. Rejected => kind.rejected /\ page > 1 BY DEF Rejected
  <2>2. QED BY <2>1
<1>f. ASSUME LosesNone
      PROVE ~Rejected /\ ~Steady /\ (page = 1 \/ kind.next = "now")
  <2>1. OnePage => page = 1 BY <1>c, <1>n DEF BackInv
  <2>2. ~Rejected BY <2>1, <1>f, <1>j, <1>n DEF LosesFacts
  <2>3. fails > 0 BY <2>2, <1>r
  <2>4. ~Steady BY <2>3, <1>n DEF Steady
  <2>5. kind.pages = "none" => page = 1 BY <1>r, <1>t DEF PageInv
  <2>6. QED BY <2>1, <2>2, <2>4, <2>5, <1>f, <1>n DEF LosesFacts
<1>1. TimesInv'
  <2>1. now <= deadline' BY <1>r, <1>n
  <2>2. QED BY <2>1, <1>c, <1>k, <1>u, <1>r DEF TimesInv
<1>2. DelayInv'
  <2> SUFFICES ASSUME LosesNone, kind.from = "overlap" PROVE deadline' <= asked + (Failed' + 1) * Round
    BY <1>k, <1>u, <1>r DEF DelayInv
  <2> DEFINE x == Failed + 1
  <2>1. Failed' + 1 = x + 1 /\ x \in Nat /\ Round \in Nat BY <1>f, <1>r, <1>u, <1>n DEF Failed, Round
  <2>2. deadline <= asked + x * Round + conf.MaxBusy /\ now <= deadline BY <1>c, <1>r DEF DelayInv, TimesInv
  <2> HIDE DEF x
  <2>3. (x + 1) * Round = x * Round + Round /\ x * Round \in Nat BY <2>1
  <2>4. Round = Interval + conf.MaxBusy BY DEF Round
  <2>5. deadline' <= asked + (x * Round + Round) BY <2>2, <2>3, <2>4, <1>r, <1>n
  <2>6. QED BY <2>1, <2>3, <2>5
<1>3. BackInv' BY <1>c, <1>k, <1>u, <1>r DEF BackInv, InCycle
<1>4. KnownInv'
  <2> SUFFICES ASSUME LosesNone PROVE KnownInv' BY <1>k DEF KnownInv
  <2>1. CASE page = 1
    <3>1. items = {} BY <2>1, <1>r, <1>c DEF BackInv
    <3>2. \A e : Taken(e)' <=> Taken(e) BY <3>1, <1>r, <1>u DEF Taken
    <3>3. QED BY <3>2, <1>c, <1>k, <1>u, <1>r DEF KnownInv
  <2>2. CASE kind.next = "now"
    <3>1. kind.new = "any" /\ kind.stamp = "none"
      BY <2>2, <1>n DEF KindFacts, PageFacts
    <3>2. QED BY <3>1, <1>c, <1>k, <1>u, <1>r DEF KnownInv, BackInv
  <2>3. QED BY <2>1, <2>2, <1>f
<1>5. PagesInv' BY <1>r DEF PagesInv, InCycle
<1>6. BehindInv'
  <2> SUFFICES ASSUME LosesNone, NEW e \in Events, created[e] # None, First <= created[e],
                      created[e] < asked \/ (kind.from # "all" /\ created[e] < since')
               PROVE shipped[e] > 0
    BY <1>k, <1>u, <1>r DEF BehindInv, Settled
  <2>1. Live /\ InCycle BY <1>r DEF Live, InCycle
  <2>2. created[e] < asked \/ (kind.from # "all" /\ created[e] < since) => shipped[e] > 0
    BY <2>1, <1>c, <1>r DEF BehindInv, Settled
  <2>3. kind.from # "all" => since' = since
    <3> SUFFICES ASSUME kind.from # "all" PROVE since' = since OBVIOUS
    <3>1. kind.next # "newest" BY <1>n DEF KindFacts, PageFacts
    <3>2. ~(kind.next = "lastNew" /\ kind.new = "unseen") BY <1>f, <1>n DEF LosesFacts
    <3>3. kind.next = "now" => kind.next \notin {"lastNew", "newest"} OBVIOUS
    <3>4. last = since BY <2>1, <3>1, <3>2, <3>3, <1>f, <1>c DEF BackInv
    <3>5. ~(kind.pages = "each" /\ page > 1) BY <1>f, <1>n DEF PageFacts
    <3>6. QED BY <3>4, <3>5, <1>r
  <2>4. QED BY <2>2, <2>3
<1>7. QED BY <1>1, <1>2, <1>3, <1>4, <1>5, <1>6 DEF CoverInv

\* Every step of a window poller keeps what has been covered.
LEMMA CoverStep == ASSUME WindowInv, CoverInv, Next PROVE CoverInv'
<1>t. TypeOK BY DEF WindowInv
<1>n. now \in Nat /\ deadline \in Nat /\ (pc # "ended" => now <= deadline)
  BY <1>t, WindowNumbers DEF CoverInv, TimesInv
<1>1. CASE Tick \/ WaitStopped \/ ShipFails \/ ShippedPage \/ CloseStop \/ CloseWait \/ Stopped
  <2> USE DEF Tick, WaitStopped, ShipFails, ShippedPage, CloseStop, CloseWait, Stopped, windowVars, vars
  <2>1. UNCHANGED <<conf, created, deadline, since, lastId, start, until, last, dedupe, page, items, fails, shipped,
                    asked>>
    BY <1>1
  <2>2. isStop => isStop' BY <1>1
  <2>3. pc' # "ended" => now' <= deadline
    <3>1. CASE Tick BY <3>1, <1>n
    <3>2. CASE ~Tick
      <4>1. now' = now /\ (pc' # "ended" => pc # "ended") BY <3>2, <1>1
      <4>2. QED BY <4>1, <1>n
    <3>3. QED BY <3>1, <3>2
  <2>4. \/ pc' \in {pc, "ended"}
        \/ pc = "ship" /\ page > 0 /\ items = {} /\ ~isStop /\ pc' = "page"
    BY <1>1
  <2>5. QED BY <2>1, <2>2, <2>3, <2>4, CoverQuiet
<1>2. CASE Cycle
  BY <1>1, <1>2, CoverRequest, CoverGetPage, CoverGetLastPage, CoverPageFails, CoverShip, CoverShippedAll DEF Cycle
<1>3. QED BY <1>1, <1>2, CoverPublish DEF Next

\* What is behind the last window is shipped.
LEMMA WindowMissesNone == WindowInv /\ CoverInv => NextCycleShips
<1> SUFFICES ASSUME WindowInv, CoverInv, LosesNone, pc = "wait", NEW e \in Events, created[e] # None,
                    First <= created[e], created[e] < asked
             PROVE shipped[e] > 0
  BY DEF NextCycleShips
<1>1. Live BY DEF Live
<1>2. Settled(e) BY <1>1 DEF CoverInv, BehindInv
<1>3. QED BY <1>2 DEF Settled

-----------------------------------------------------------------------------
(***************************************************************************)
(* The cursor pollers miss no event.                                       *)
(***************************************************************************)
\* Published after the first answer: to be shipped.
Due(e) == created[e] # None /\ begun # None /\ begun < created[e]

\* slack: the pages of a cycle have the time kept.
InPages == processed /\ pc \in {"request", "ship"}

\* A cycle that fails, with the wait that follows.
Span == Interval + 2 * conf.MaxBusy

\* The clock does not pass a deadline; nothing has come before the first answer; a cursor
\* stands for a published event.
CursorTimesInv ==
  /\ \A e \in Events : created[e] # None => created[e] > 0
  /\ pc \notin {"ended", "first"} => now <= deadline
  /\ pc \in {"request", "ship"} => deadline <= now + conf.MaxBusy
  /\ pc = "first" => begun = None
  /\ cursor > 0 => created[cursor] # None

\* Without a cursor, the windows of box, itglue and sophos reach back to the last answer that
\* left nothing behind, whatever has failed since.
SpanInv ==
  C!LosesNone /\ conf.adapter \in {"box", "itglue", "sophos"} /\ begun # None /\ cursor = None =>
    /\ drained # None
    /\ pc = "ship" => deadline <= drained + conf.MaxBusy + Failed * Span
    /\ pc = "wait" => deadline <= drained + conf.MaxBusy + Interval + Failed * Span
    /\ pc = "request" => deadline <= drained + (Failed + 1) * Span

\* What lies at the cursor or before it was taken.
PastInv ==
  C!LosesNone =>
    /\ C!OnePage /\ conf.adapter \in {"itglue", "sophos", "slack", "duo", "wiz"} => cursor = None
    /\ conf.adapter \in {"onepassword", "sophosBool"} /\ begun # None => cursor # None
    /\ \A e \in Events : Due(e) /\ e <= cursor => Taken(e)

\* What lies before the time kept was taken; that time is not ahead of what is published.
KeptSinceInv ==
  C!LosesNone =>
    /\ InPages => since > 0
    /\ C!kind.from \in {"since", "after"} /\ since > 0 =>
         \E m \in Events : created[m] # None
                           /\ since <= created[m] + (IF C!kind.from = "after" \/ InPages THEN 0 ELSE 1)
    /\ C!kind.from = "since" =>
         \A e \in Events : Due(e) /\ (created[e] < since \/ (InPages /\ created[e] = since)) => Taken(e)
    /\ C!kind.from = "after" => \A e \in Events : Due(e) /\ created[e] <= since => Taken(e)
    /\ C!kind.from = "after" /\ lastId # 0 => created[lastId] # None /\ created[lastId] <= since

\* What box has seen was taken, unless it came with the first answer.
BoxKnownInv ==
  C!LosesNone /\ conf.adapter = "box" => \A e \in Events : dedupe[e] # None /\ Due(e) => Taken(e)

\* An answer that leaves nothing behind has brought all there was.
DrainedInv == C!LosesNone => \A e \in Events : Due(e) /\ created[e] < drained => Taken(e)

CursorCoverInv == CursorTimesInv /\ SpanInv /\ PastInv /\ KeptSinceInv /\ BoxKnownInv /\ DrainedInv

\* What the records say of the requests.
AskFacts(a, k) ==
  /\ k.from = "now" <=> a = "onepassword"
  /\ k.from = "interval" <=> a \in {"itglue", "sophos", "sophosBool"}
  /\ k.from = "window" <=> a = "box"
  /\ k.from = "since" <=> a \in {"slack", "duo"}
  /\ a \in {"itglue", "sophos"} => k.cursor = "more"
  /\ a = "duo" => k.cursor = "full"
  /\ a = "wiz" => k.cursor = "never"

\* Every adapter of the cursor pollers has such a record.
LEMMA AskKinds == \A a \in C!Adapters : AskFacts(a, C!Kind[a])
<1> USE DEF AskFacts, C!OnePassword, C!ITGlue
<1>1. AskFacts("onepassword", C!OnePassword) OBVIOUS
<1>2. AskFacts("itglue", C!ITGlue) OBVIOUS
<1>3. AskFacts("sophos", C!SophosString) BY DEF C!SophosString
<1>4. AskFacts("sophosBool", C!SophosBoolean) BY DEF C!SophosBoolean
<1>5. AskFacts("box", C!Box) BY DEF C!Box
<1>6. AskFacts("slack", C!Slack) BY DEF C!Slack
<1>7. AskFacts("duo", C!Duo) BY DEF C!Duo
<1>8. AskFacts("wiz", C!Wiz) BY DEF C!Wiz
<1> HIDE DEF AskFacts, C!OnePassword, C!ITGlue
<1>9. \A a \in C!Adapters :
        \/ a = "onepassword" /\ C!Kind[a] = C!OnePassword
        \/ a = "itglue" /\ C!Kind[a] = C!ITGlue
        \/ a = "sophos" /\ C!Kind[a] = C!SophosString
        \/ a = "sophosBool" /\ C!Kind[a] = C!SophosBoolean
        \/ a = "box" /\ C!Kind[a] = C!Box
        \/ a = "slack" /\ C!Kind[a] = C!Slack
        \/ a = "duo" /\ C!Kind[a] = C!Duo
        \/ a = "wiz" /\ C!Kind[a] = C!Wiz
  BY DEF C!Adapters, C!Kind
<1>10. QED BY <1>1, <1>2, <1>3, <1>4, <1>5, <1>6, <1>7, <1>8, <1>9

\* The conditions under which a cursor poller misses nothing, by adapter.
CursorLosesFacts ==
  /\ conf.adapter \in {"onepassword", "sophosBool", "box"} => ~conf.Descending
  /\ conf.Descending => C!OnePage
  /\ conf.adapter \in {"itglue", "sophos"} => C!OnePage /\ conf.MaxBusy = 0 /\ conf.Fails = 0
  /\ conf.adapter = "box" => (conf.Fails + 1) * Span <= BoxWindow
  /\ conf.adapter \in {"slack", "duo", "wiz"} => ~conf.Ties
  /\ conf.adapter = "wiz" => C!OnePage /\ conf.Descending

\* What the situation is.
LEMMA CursorSituation ==
  ASSUME conf \in CursorConfs
  PROVE  /\ conf.adapter \in C!Adapters /\ CursorKindFacts(conf.adapter, C!kind) /\ AskFacts(conf.adapter, C!kind)
         /\ C!LosesNone => CursorLosesFacts
<1>1. C!IsConf(conf) BY CursorAssumption
<1>2. conf.adapter \in C!Adapters /\ conf.kind = C!Kind[conf.adapter] BY <1>1 DEF C!IsConf
<1>3. CursorKindFacts(conf.adapter, C!kind) /\ AskFacts(conf.adapter, C!kind)
  BY <1>2, CursorKindsAreThese, AskKinds DEF C!kind
<1>4. ASSUME C!LosesNone PROVE CursorLosesFacts
  <2> USE <1>4 DEF C!LosesNone, CursorLosesFacts
  <2>1. CASE conf.adapter = "onepassword" BY <2>1
  <2>2. CASE conf.adapter = "sophosBool" BY <2>2
  <2>3. CASE conf.adapter = "itglue" BY <2>3
  <2>4. CASE conf.adapter = "sophos" BY <2>4
  <2>5. CASE conf.adapter = "box" BY <2>5 DEF Span
  <2>6. CASE conf.adapter = "slack" BY <2>6
  <2>7. CASE conf.adapter = "duo" BY <2>7
  <2>8. CASE conf.adapter = "wiz" BY <2>8
  <2>9. QED BY <1>2, <2>1, <2>2, <2>3, <2>4, <2>5, <2>6, <2>7, <2>8 DEF C!Adapters
<1>5. QED BY <1>2, <1>3, <1>4

\* The situation never changes.
LEMMA CursorSituationStays ==
  ASSUME conf' = conf
  PROVE  C!kind' = C!kind /\ (C!LosesNone' <=> C!LosesNone) /\ (C!OnePage' <=> C!OnePage) /\ Span' = Span
BY DEF C!kind, C!LosesNone, C!OnePage, Span

\* The types, as the provers need them.
LEMMA CursorNumbers ==
  ASSUME CursorInv
  PROVE  /\ now \in Nat /\ deadline \in Nat /\ since \in Nat /\ cursor \in Int /\ begun \in Int /\ drained \in Int
         /\ cursor \in {None, 0} \union Events /\ lastId \in {0} \union Events
         /\ fails \in Nat /\ Failed \in Nat /\ conf.Fails \in Nat /\ Failed <= conf.Fails
         /\ conf.MaxBusy \in Nat /\ conf.PageSize \in Nat \ {0} /\ Interval \in Nat /\ Span \in Nat /\ BoxWindow \in Nat
         /\ begun <= now /\ drained <= now
         /\ \A e \in Events : created[e] \in Int /\ created[e] <= now /\ shipped[e] \in Nat /\ e \in Nat /\ e > 0
         /\ None = -1 /\ 0 \notin Events /\ None \notin Events
<1> USE CursorConstants
<1>t. C!TypeOK /\ PublishedInOrder BY DEF CursorInv
<1>c. conf.PageSize \in Nat \ {0} /\ conf.Fails \in Nat /\ conf.MaxBusy \in Nat
  <2>1. conf \in CursorConfs BY <1>t DEF C!TypeOK
  <2>2. QED BY <2>1, CursorConf
<1>1. now \in Nat /\ deadline \in Nat /\ since \in Nat /\ begun \in Int /\ drained \in Int /\ begun <= now /\ drained <= now
  BY <1>t, <1>c DEF C!TypeOK, None
<1>2. cursor \in {None, 0} \union Events /\ lastId \in {0} \union Events /\ cursor \in Int
  BY <1>t DEF C!TypeOK, None, Events
<1>3. fails \in Nat /\ Failed \in Nat /\ Failed <= conf.Fails BY <1>t, <1>c DEF C!TypeOK, Failed
<1>4. Span \in Nat BY <1>c DEF Span
<1>5. \A e \in Events : created[e] \in Int /\ created[e] <= now /\ shipped[e] \in Nat /\ e \in Nat /\ e > 0
  <2> TAKE e \in Events
  <2>1. created[e] \in Int /\ shipped[e] \in Nat BY <1>t DEF C!TypeOK, None
  <2>2. created[e] <= now BY <1>t DEF PublishedInOrder
  <2>3. e \in Nat /\ e > 0 BY DEF Events
  <2>4. QED BY <2>1, <2>2, <2>3
<1>6. None = -1 /\ 0 \notin Events /\ None \notin Events BY DEF None, Events
<1>7. QED BY <1>c, <1>1, <1>2, <1>3, <1>4, <1>5, <1>6


\* The first state.
LEMMA CursorCoverInit == C!Init => CursorCoverInv
<1> SUFFICES ASSUME C!Init PROVE CursorCoverInv OBVIOUS
<1> USE CursorConstants
<1>1. CursorInv BY CursorInit
<1>2. now = 0 /\ deadline = Interval /\ cursor = None /\ since = 0 /\ lastId = 0 /\ begun = None
      /\ pc \in {"first", "wait"} /\ \A e \in Events : created[e] = None /\ dedupe[e] = None
  BY DEF C!Init
<1>3. Interval \in Nat /\ conf.MaxBusy \in Nat /\ None = -1 /\ \A e \in Events : e > 0 BY <1>1, CursorNumbers
<1>4. \A e \in Events : ~Due(e) BY <1>2 DEF Due
<1>5. CursorTimesInv BY <1>2, <1>3 DEF CursorTimesInv
<1>6. SpanInv BY <1>2 DEF SpanInv
<1>7. PastInv BY <1>2, <1>4 DEF PastInv
<1>8. KeptSinceInv BY <1>2, <1>4 DEF KeptSinceInv, InPages
<1>9. BoxKnownInv /\ DrainedInv BY <1>4 DEF BoxKnownInv, DrainedInv
<1>10. QED BY <1>5, <1>6, <1>7, <1>8, <1>9 DEF CursorCoverInv

\* The steps that ask for nothing: the clock, the shipping, the end, and the next page and
\* the errors of slack, which has no window.
LEMMA CursorCoverQuiet ==
  ASSUME CursorInv, CursorCoverInv,
         UNCHANGED <<conf, created, deadline, since, lastId, processed, dedupe, begun, drained>>,
         cursor' = cursor \/ (cursor' = None /\ conf.adapter = "slack"),
         fails' = fails \/ conf.adapter = "slack",
         \A e \in Events : Taken(e) => Taken(e)',
         pc' \in {pc, "ended"} \/ (pc \in {"request", "ship"} /\ pc' \in {"request", "ship"} /\ conf.adapter = "slack"),
         now' \in Nat, now <= now', pc' \notin {"ended", "first"} => now' <= deadline
  PROVE CursorCoverInv'
<1> USE CursorConstants
<1>n. now \in Nat /\ deadline \in Nat /\ conf.MaxBusy \in Nat /\ None = -1 /\ (\A e \in Events : e > 0) BY CursorNumbers
<1>k. C!kind' = C!kind /\ (C!LosesNone' <=> C!LosesNone) /\ (C!OnePage' <=> C!OnePage) /\ Span' = Span
  BY CursorSituationStays
<1>c. CursorTimesInv /\ SpanInv /\ PastInv /\ KeptSinceInv /\ BoxKnownInv /\ DrainedInv BY DEF CursorCoverInv
<1>d. \A e \in Events : Due(e)' <=> Due(e) BY DEF Due
<1>p. InPages' => InPages BY DEF InPages
<1>1. CursorTimesInv'
  <2>1. pc' \notin {"ended", "first"} => now' <= deadline' OBVIOUS
  <2>2. pc' \in {"request", "ship"} => deadline' <= now' + conf'.MaxBusy
    <3> SUFFICES ASSUME pc' \in {"request", "ship"} PROVE deadline <= now' + conf.MaxBusy OBVIOUS
    <3>1. deadline <= now + conf.MaxBusy BY <1>c DEF CursorTimesInv
    <3>2. QED BY <3>1, <1>n
  <2>3. (pc' = "first" => begun' = None) /\ (\A e \in Events : created'[e] # None => created'[e] > 0)
    BY <1>c DEF CursorTimesInv
  <2>4. cursor' > 0 => created'[cursor'] # None BY <1>c, <1>n DEF CursorTimesInv
  <2>5. QED BY <2>1, <2>2, <2>3, <2>4 DEF CursorTimesInv
<1>2. SpanInv'
  <2> SUFFICES ASSUME C!LosesNone, conf.adapter \in {"box", "itglue", "sophos"} PROVE SpanInv' BY <1>k DEF SpanInv
  <2>1. UNCHANGED <<cursor, fails>> /\ pc' \in {pc, "ended"} OBVIOUS
  <2>2. Failed' = Failed BY <2>1 DEF Failed
  <2>3. QED BY <2>1, <2>2, <1>k, <1>c DEF SpanInv
<1>3. PastInv'
  <2> SUFFICES ASSUME C!LosesNone PROVE PastInv' BY <1>k DEF PastInv
  <2>1. \A e \in Events : ~(e <= None) BY <1>n DEF Events
  <2>2. CASE cursor' = cursor BY <2>2, <1>k, <1>c, <1>d DEF PastInv
  <2>3. CASE cursor' = None /\ conf.adapter = "slack" BY <2>3, <2>1 DEF PastInv
  <2>4. QED BY <2>2, <2>3
<1>4. KeptSinceInv'
  <2> SUFFICES ASSUME C!LosesNone PROVE KeptSinceInv' BY <1>k DEF KeptSinceInv
  <2>1. ASSUME C!kind.from \in {"since", "after"}, since > 0
        PROVE  \E m \in Events : created[m] # None
                                 /\ since <= created[m] + (IF C!kind.from = "after" \/ InPages' THEN 0 ELSE 1)
    <3>1. PICK m \in Events : created[m] # None
                             /\ since <= created[m] + (IF C!kind.from = "after" \/ InPages THEN 0 ELSE 1)
      BY <2>1, <1>c DEF KeptSinceInv
    <3>2. created[m] \in Int /\ since \in Nat BY CursorNumbers
    <3>3. since <= created[m] + (IF C!kind.from = "after" \/ InPages' THEN 0 ELSE 1) BY <3>1, <3>2, <1>p
    <3>4. QED BY <3>1, <3>3
  <2>2. C!kind.from = "since" =>
          \A e \in Events : Due(e)' /\ (created[e] < since \/ (InPages' /\ created[e] = since)) => Taken(e)'
    BY <1>c, <1>d, <1>p DEF KeptSinceInv
  <2>3. C!kind.from = "after" => \A e \in Events : Due(e)' /\ created[e] <= since => Taken(e)'
    BY <1>c, <1>d DEF KeptSinceInv
  <2>4. C!kind.from = "after" /\ lastId # 0 => created[lastId] # None /\ created[lastId] <= since
    BY <1>c DEF KeptSinceInv
  <2>5. InPages' => since > 0 BY <1>p, <1>c DEF KeptSinceInv
  <2>6. QED BY <2>1, <2>2, <2>3, <2>4, <2>5, <1>k DEF KeptSinceInv
<1>5. BoxKnownInv' /\ DrainedInv' BY <1>k, <1>c, <1>d DEF BoxKnownInv, DrainedInv
<1>6. QED BY <1>1, <1>2, <1>3, <1>4, <1>5 DEF CursorCoverInv


\* An event that is published lies after all that is known.
LEMMA CursorCoverPublish == ASSUME CursorInv, CursorCoverInv, NEW p \in Events, C!Publish(p) PROVE CursorCoverInv'
<1> USE CursorConstants
<1>t. C!TypeOK /\ PublishedInOrder /\ KeptInv BY DEF CursorInv
<1>u. UNCHANGED <<conf, now, pc, deadline, cursor, since, lastId, processed, dedupe, items, fails, isStop, closer,
                  shipped, begun, drained>>
  BY DEF C!Publish, C!keptVars, C!historyVars
<1>n. /\ now \in Nat /\ since \in Nat /\ cursor \in {None, 0} \union Events /\ lastId \in {0} \union Events
      /\ begun <= now /\ drained <= now /\ drained \in Int /\ None = -1
      /\ \A e \in Events : created[e] \in Int /\ e \in Nat /\ e > 0
  BY CursorNumbers
<1>k. C!kind' = C!kind /\ (C!LosesNone' <=> C!LosesNone) /\ (C!OnePage' <=> C!OnePage) /\ Span' = Span
  BY <1>u, CursorSituationStays
<1>c. CursorTimesInv /\ SpanInv /\ PastInv /\ KeptSinceInv /\ BoxKnownInv /\ DrainedInv BY DEF CursorCoverInv
<1>r. now > 0 /\ created[p] = None /\ created' = [created EXCEPT ![p] = now] BY DEF C!Publish, C!Published
<1>d. created'[p] = now /\ \A e \in Events : e # p => created'[e] = created[e]
  <2>1. created \in [Events -> None .. CursorTime] BY <1>t DEF C!TypeOK
  <2>2. QED BY <1>r, <2>1
<1>e. \A e \in Events : created[e] # None => created'[e] = created[e] /\ created'[e] # None BY <1>r, <1>d
<1>D. \A e \in Events : e # p => (Due(e)' <=> Due(e)) BY <1>d, <1>u DEF Due
<1>T. \A e \in Events : (Taken(e)' <=> Taken(e)) /\ Failed' = Failed /\ (InPages' <=> InPages)
  BY <1>u DEF Taken, Failed, InPages
<1>b. \A m \in Events : created[m] # None => m < p
  <2> SUFFICES ASSUME NEW m \in Events, created[m] # None PROVE m < p OBVIOUS
  <2>1. ~(p < m) BY <1>r, <1>t DEF PublishedInOrder
  <2>2. QED BY <2>1, <1>r, <1>n
<1>o. ~conf.Ties => \A m \in Events : created[m] # None => created[m] < now
  <2> SUFFICES ASSUME ~conf.Ties, NEW m \in Events, created[m] # None PROVE created[m] < now OBVIOUS
  <2>1. m < p /\ m \in Nat /\ p \in Nat /\ m > 0 BY <1>b, <1>n
  <2>2. created[p - 1] # None /\ created[p - 1] < now BY <2>1 DEF C!Publish
  <2>3. p - 1 \in Events BY <2>1 DEF Events
  <2>4. CASE m = p - 1 BY <2>4, <2>2
  <2>5. CASE m < p - 1
    <3>1. created[m] <= created[p - 1] BY <2>5, <2>2, <2>3, <1>t DEF PublishedInOrder
    <3>2. QED BY <3>1, <2>2, <2>3, <1>n
  <2>6. QED BY <2>1, <2>4, <2>5
<1>1. CursorTimesInv'
  <2>1. \A e \in Events : created'[e] # None => created'[e] > 0 BY <1>c, <1>d, <1>r DEF CursorTimesInv
  <2>2. cursor' > 0 => created'[cursor'] # None BY <1>c, <1>u, <1>e, <1>n DEF CursorTimesInv
  <2>3. QED BY <2>1, <2>2, <1>c, <1>u DEF CursorTimesInv
<1>2. SpanInv' BY <1>u, <1>k, <1>c DEF SpanInv, Failed
<1>3. PastInv'
  <2> SUFFICES ASSUME C!LosesNone PROVE PastInv' BY <1>k DEF PastInv
  <2>1. ASSUME NEW e \in Events, Due(e)', e <= cursor PROVE Taken(e)'
    <3>1. CASE e # p BY <3>1, <2>1, <1>D, <1>T, <1>c DEF PastInv
    <3>2. CASE e = p
      <4>1. cursor > 0 /\ cursor \in Events BY <2>1, <1>n
      <4>2. cursor < p BY <4>1, <1>c, <1>b DEF CursorTimesInv
      <4>3. QED BY <4>1, <4>2, <3>2, <2>1, <1>n
    <3>3. QED BY <3>1, <3>2
  <2>2. QED BY <2>1, <1>c, <1>k, <1>u DEF PastInv
<1>4. KeptSinceInv'
  <2> SUFFICES ASSUME C!LosesNone PROVE KeptSinceInv' BY <1>k DEF KeptSinceInv
  <2>k. CursorKindFacts(conf.adapter, C!kind) /\ AskFacts(conf.adapter, C!kind) /\ CursorLosesFacts
    BY <1>t, CursorSituation DEF C!TypeOK
  <2>1. ASSUME C!kind.from \in {"since", "after"}, since > 0
        PROVE  \E m \in Events :
                 /\ created[m] # None /\ created'[m] # None /\ created[m] < now
                 /\ since <= created[m] + (IF C!kind.from = "after" \/ InPages THEN 0 ELSE 1)
                 /\ since <= created'[m] + (IF C!kind.from = "after" \/ InPages THEN 0 ELSE 1)
    <3>1. PICK m \in Events : created[m] # None
                             /\ since <= created[m] + (IF C!kind.from = "after" \/ InPages THEN 0 ELSE 1)
      BY <2>1, <1>c DEF KeptSinceInv
    <3>2. ~conf.Ties BY <2>1, <2>k DEF AskFacts, CursorLosesFacts, CursorKindFacts
    <3>3. QED BY <3>1, <3>2, <1>o, <1>e
  <2>2. C!kind.from = "since" => ~(now < since) /\ ~(InPages /\ now = since)
    <3> SUFFICES ASSUME C!kind.from = "since", now < since \/ (InPages /\ now = since) PROVE FALSE OBVIOUS
    <3>1. since > 0 BY <1>n, <1>r
    <3>2. PICK m \in Events : created[m] < now /\ since <= created[m] + (IF C!kind.from = "after" \/ InPages THEN 0 ELSE 1)
      BY <2>1, <3>1
    <3>3. QED BY <3>2, <1>n
  <2>3. C!kind.from = "after" => ~(now <= since)
    <3> SUFFICES ASSUME C!kind.from = "after", now <= since PROVE FALSE OBVIOUS
    <3>1. since > 0 BY <1>n, <1>r
    <3>2. PICK m \in Events : created[m] < now /\ since <= created[m] + (IF C!kind.from = "after" \/ InPages THEN 0 ELSE 1)
      BY <2>1, <3>1
    <3>3. QED BY <3>2, <1>n
  <2>4. C!kind.from = "since" =>
          \A e \in Events : Due(e)' /\ (created'[e] < since \/ (InPages /\ created'[e] = since)) => Taken(e)'
    BY <2>2, <1>d, <1>D, <1>T, <1>c DEF KeptSinceInv
  <2>5. C!kind.from = "after" => \A e \in Events : Due(e)' /\ created'[e] <= since => Taken(e)'
    BY <2>3, <1>d, <1>D, <1>T, <1>c DEF KeptSinceInv
  <2>6. C!kind.from = "after" /\ lastId # 0 => created'[lastId] # None /\ created'[lastId] <= since
    BY <1>c, <1>e, <1>n DEF KeptSinceInv
  <2>7. InPages' <=> InPages BY <1>T
  <2>8. InPages => since > 0 BY <1>c DEF KeptSinceInv
  <2>9. QED BY <2>1, <2>4, <2>5, <2>6, <2>7, <2>8, <1>k, <1>u DEF KeptSinceInv
<1>5. BoxKnownInv'
  <2>1. dedupe[p] = None BY <1>r, <1>t DEF KeptInv
  <2>2. QED BY <2>1, <1>D, <1>T, <1>c, <1>k, <1>u DEF BoxKnownInv
<1>6. DrainedInv'
  <2>1. ~(created'[p] < drained') BY <1>d, <1>u, <1>n
  <2>2. QED BY <2>1, <1>d, <1>D, <1>T, <1>c, <1>k, <1>u DEF DrainedInv
<1>7. QED BY <1>1, <1>2, <1>3, <1>4, <1>5, <1>6 DEF CursorCoverInv


\* A cycle begins.
LEMMA CursorCoverBegins == ASSUME CursorInv, CursorCoverInv, C!WaitTimedOut PROVE CursorCoverInv'
<1> USE CursorConstants
<1>u. UNCHANGED <<conf, now, created, cursor, since, lastId, dedupe, items, fails, shipped, begun, drained>>
  BY DEF C!WaitTimedOut, C!historyVars
<1>r. pc = "wait" /\ now = deadline /\ pc' = "request" /\ deadline' = now + conf.MaxBusy /\ processed' = FALSE
  BY DEF C!WaitTimedOut
<1>n. /\ now \in Nat /\ since \in Nat /\ Failed \in Nat /\ conf.MaxBusy \in Nat /\ drained \in Int /\ Interval \in Nat
      /\ Span \in Nat /\ \A e \in Events : created[e] \in Int
  BY CursorNumbers
<1>k. C!kind' = C!kind /\ (C!LosesNone' <=> C!LosesNone) /\ (C!OnePage' <=> C!OnePage) /\ Span' = Span
  BY <1>u, CursorSituationStays
<1>c. CursorTimesInv /\ SpanInv /\ PastInv /\ KeptSinceInv /\ BoxKnownInv /\ DrainedInv BY DEF CursorCoverInv
<1>d. (\A e \in Events : (Due(e)' <=> Due(e)) /\ (Taken(e)' <=> Taken(e))) /\ Failed' = Failed BY <1>u DEF Due, Taken, Failed
<1>p. ~InPages' /\ ~InPages BY <1>r DEF InPages
<1>1. CursorTimesInv' BY <1>u, <1>r, <1>n, <1>c DEF CursorTimesInv
<1>2. SpanInv'
  <2> SUFFICES ASSUME C!LosesNone, conf.adapter \in {"box", "itglue", "sophos"}, begun # None, cursor = None PROVE SpanInv'
    BY <1>k, <1>u DEF SpanInv
  <2>1. drained # None /\ deadline <= drained + conf.MaxBusy + Interval + Failed * Span BY <1>c, <1>r DEF SpanInv
  <2>2. (Failed + 1) * Span = Failed * Span + Span /\ Failed * Span \in Nat BY <1>n, Products
  <2>3. Span = Interval + 2 * conf.MaxBusy BY DEF Span
  <2> DEFINE fs == Failed * Span
  <2>4. deadline <= drained + conf.MaxBusy + Interval + fs /\ fs \in Nat BY <2>1, <2>2
  <2> HIDE DEF fs
  <2>5. now + conf.MaxBusy <= drained + (fs + Span)
    BY ONLY <2>3, <2>4, <1>r, <1>n
  <2>6. deadline' <= drained + (Failed + 1) * Span BY <2>5, <2>2, <1>r DEF fs
  <2>7. QED BY <2>1, <2>6, <1>u, <1>r, <1>k, <1>d DEF SpanInv
<1>3. PastInv' BY <1>u, <1>k, <1>c, <1>d DEF PastInv
<1>4. KeptSinceInv' BY <1>u, <1>k, <1>c, <1>d, <1>p DEF KeptSinceInv
<1>5. BoxKnownInv' /\ DrainedInv' BY <1>u, <1>k, <1>c, <1>d DEF BoxKnownInv, DrainedInv
<1>6. QED BY <1>1, <1>2, <1>3, <1>4, <1>5 DEF CursorCoverInv

\* A request fails: the next cycle comes a span later.
LEMMA CursorCoverFails == ASSUME CursorInv, CursorCoverInv, C!RequestFails PROVE CursorCoverInv'
<1> USE CursorConstants
<1>t. C!TypeOK BY DEF CursorInv
<1>u. UNCHANGED <<conf, now, created, cursor, since, lastId, processed, dedupe, items, shipped, begun, drained>>
  BY DEF C!RequestFails, C!historyVars, C!CursorKept
<1>r. pc = "request" /\ ~C!kind.pages /\ fails > 0 /\ fails' = fails - 1 /\ pc' \in {"wait", "ended"} /\ deadline' = now + Interval
  BY DEF C!RequestFails, C!Wait
<1>n. /\ now \in Nat /\ since \in Nat /\ Failed \in Nat /\ conf.MaxBusy \in Nat /\ drained \in Int /\ Interval \in Nat
      /\ Span \in Nat /\ deadline \in Nat /\ fails \in Nat /\ conf.Fails \in Nat
  BY CursorNumbers
<1>k. C!kind' = C!kind /\ (C!LosesNone' <=> C!LosesNone) /\ (C!OnePage' <=> C!OnePage) /\ Span' = Span
  BY <1>u, CursorSituationStays
<1>c. CursorTimesInv /\ SpanInv /\ PastInv /\ KeptSinceInv /\ BoxKnownInv /\ DrainedInv BY DEF CursorCoverInv
<1>d. \A e \in Events : (Due(e)' <=> Due(e)) /\ (Taken(e)' <=> Taken(e)) BY <1>u DEF Due, Taken
<1>f. Failed' = Failed + 1 BY <1>u, <1>r, <1>n DEF Failed
<1>s. CursorKindFacts(conf.adapter, C!kind) BY <1>t, CursorSituation DEF C!TypeOK
<1>p. ~InPages' /\ ~InPages BY <1>r, <1>s DEF InPages, CursorInv, KeptInv, CursorKindFacts
<1>1. CursorTimesInv' BY <1>u, <1>r, <1>n, <1>c DEF CursorTimesInv
<1>2. SpanInv'
  <2> SUFFICES ASSUME C!LosesNone, conf.adapter \in {"box", "itglue", "sophos"}, begun # None, cursor = None PROVE SpanInv'
    BY <1>k, <1>u DEF SpanInv
  <2>1. drained # None /\ deadline <= drained + (Failed + 1) * Span /\ now <= deadline
    BY <1>c, <1>r DEF SpanInv, CursorTimesInv
  <2> DEFINE fs == (Failed + 1) * Span
  <2>2. fs \in Nat BY <1>n, Products
  <2>3. deadline <= drained + fs /\ now <= deadline BY <2>1
  <2> HIDE DEF fs
  <2>4. now + Interval <= drained + conf.MaxBusy + Interval + fs BY ONLY <2>2, <2>3, <1>n
  <2>5. deadline' <= drained + conf.MaxBusy + Interval + (Failed + 1) * Span BY <2>4, <1>r DEF fs
  <2>6. QED BY <2>1, <2>5, <1>u, <1>r, <1>k, <1>f DEF SpanInv
<1>3. PastInv' BY <1>u, <1>k, <1>c, <1>d DEF PastInv
<1>4. KeptSinceInv' BY <1>u, <1>k, <1>c, <1>d, <1>p DEF KeptSinceInv
<1>5. BoxKnownInv' /\ DrainedInv' BY <1>u, <1>k, <1>c, <1>d DEF BoxKnownInv, DrainedInv
<1>6. QED BY <1>1, <1>2, <1>3, <1>4, <1>5 DEF CursorCoverInv

\* A cycle ends: slack moves its time past that of the entries.
LEMMA CursorCoverShippedAll == ASSUME CursorInv, CursorCoverInv, C!ShippedAll PROVE CursorCoverInv'
<1> USE CursorConstants
<1>t. C!TypeOK /\ KeptInv BY DEF CursorInv
<1>u. UNCHANGED <<conf, now, created, cursor, lastId, processed, dedupe, items, fails, shipped, begun, drained>>
  BY DEF C!ShippedAll, C!historyVars
<1>r. pc = "ship" /\ pc' \in {"wait", "ended"} /\ deadline' = now + Interval /\ since' = C!NextTime BY DEF C!ShippedAll, C!Wait
<1>n. /\ now \in Nat /\ since \in Nat /\ Failed \in Nat /\ conf.MaxBusy \in Nat /\ drained \in Int /\ Interval \in Nat
      /\ Span \in Nat /\ deadline \in Nat /\ \A e \in Events : created[e] \in Int
  BY CursorNumbers
<1>k. C!kind' = C!kind /\ (C!LosesNone' <=> C!LosesNone) /\ (C!OnePage' <=> C!OnePage) /\ Span' = Span
  BY <1>u, CursorSituationStays
<1>c. CursorTimesInv /\ SpanInv /\ PastInv /\ KeptSinceInv /\ BoxKnownInv /\ DrainedInv BY DEF CursorCoverInv
<1>d. (\A e \in Events : (Due(e)' <=> Due(e)) /\ (Taken(e)' <=> Taken(e))) /\ Failed' = Failed BY <1>u DEF Due, Taken, Failed
<1>s. CursorKindFacts(conf.adapter, C!kind) /\ AskFacts(conf.adapter, C!kind) BY <1>t, CursorSituation DEF C!TypeOK
<1>p. ~InPages' /\ (InPages <=> processed) /\ (processed => conf.adapter = "slack" /\ C!kind.from = "since")
  BY <1>r, <1>t, <1>s DEF InPages, KeptInv, AskFacts
<1>x. (processed => since' = since + 1) /\ (~processed => since' = since) BY <1>r DEF C!NextTime
<1>1. CursorTimesInv' BY <1>u, <1>r, <1>n, <1>c DEF CursorTimesInv
<1>2. SpanInv'
  <2> SUFFICES ASSUME C!LosesNone, conf.adapter \in {"box", "itglue", "sophos"}, begun # None, cursor = None PROVE SpanInv'
    BY <1>k, <1>u DEF SpanInv
  <2>1. drained # None /\ deadline <= drained + conf.MaxBusy + Failed * Span /\ now <= deadline
    BY <1>c, <1>r DEF SpanInv, CursorTimesInv
  <2> DEFINE fs == Failed * Span
  <2>2. fs \in Nat BY <1>n, Products
  <2>3. deadline <= drained + conf.MaxBusy + fs /\ now <= deadline BY <2>1
  <2> HIDE DEF fs
  <2>4. now + Interval <= drained + conf.MaxBusy + Interval + fs BY ONLY <2>2, <2>3, <1>n
  <2>5. deadline' <= drained + conf.MaxBusy + Interval + Failed * Span BY <2>4, <1>r DEF fs
  <2>6. QED BY <2>1, <2>5, <1>u, <1>r, <1>k, <1>d DEF SpanInv
<1>3. PastInv' BY <1>u, <1>k, <1>c, <1>d DEF PastInv
<1>4. KeptSinceInv'
  <2> SUFFICES ASSUME C!LosesNone PROVE KeptSinceInv' BY <1>k DEF KeptSinceInv
  <2>1. CASE ~processed BY <2>1, <1>x, <1>u, <1>k, <1>c, <1>d, <1>p DEF KeptSinceInv
  <2>2. CASE processed
    <3>1. C!kind.from = "since" /\ InPages /\ since' = since + 1 BY <2>2, <1>p, <1>x
    <3>2. since > 0 => \E m \in Events : created[m] # None /\ since + 1 <= created[m] + 1
      <4>1. since > 0 => \E m \in Events : created[m] # None /\ since <= created[m] + 0 BY <3>1, <1>c DEF KeptSinceInv
      <4>2. QED BY <4>1, <1>n
    <3>3. \A e \in Events : Due(e) /\ created[e] < since + 1 => Taken(e)
      <4> SUFFICES ASSUME NEW e \in Events, Due(e), created[e] < since + 1 PROVE Taken(e) OBVIOUS
      <4>1. created[e] < since \/ created[e] = since BY <1>n
      <4>2. QED BY <4>1, <3>1, <1>c DEF KeptSinceInv
    <3>4. \E m \in Events : created[m] # None /\ since' <= created[m] + 1
      <4>1. since > 0 BY <3>1, <1>c DEF KeptSinceInv
      <4>2. QED BY <4>1, <3>2, <3>1
    <3>5. QED BY <3>1, <3>3, <3>4, <1>u, <1>k, <1>d, <1>p DEF KeptSinceInv
  <2>3. QED BY <2>1, <2>2
<1>5. BoxKnownInv' /\ DrainedInv' BY <1>u, <1>k, <1>c, <1>d DEF BoxKnownInv, DrainedInv
<1>6. QED BY <1>1, <1>2, <1>3, <1>4, <1>5 DEF CursorCoverInv


-----------------------------------------------------------------------------
\* The last event published is the one whose number is that of the published events.
LEMMA LastPublished == ASSUME CursorInv, C!Cardinality(C!Published) > 0 PROVE created[C!Cardinality(C!Published)] # None
<1> USE CursorConstants
<1> DEFINE c == C!Cardinality(C!Published)
<1>1. c \in 0 .. N /\ \A e \in C!Published : e <= c BY PublishedCount
<1>2. C!Published \in SUBSET Events /\ \A e \in C!Published : e \in Nat /\ e > 0 BY DEF C!Published, Events
<1>3. c = Cardinality(C!Published) BY DEF C!Cardinality, Cardinality
<1>4. c > 0 OBVIOUS
<1> HIDE DEF c
<1>5. SUFFICES ASSUME created[c] = None PROVE FALSE BY DEF c
<1>6. c \notin C!Published BY <1>5, CursorConstants DEF C!Published
<1>7. C!Published \in SUBSET (1 .. (c - 1))
  <2>1. \A e \in C!Published : e <= c /\ e # c /\ e \in Nat /\ e > 0 BY <1>1, <1>2, <1>6
  <2>2. QED BY <2>1, <1>1
<1>8. c - 1 \in Nat BY <1>1, <1>4
<1>9. IsFiniteSet(1 .. (c - 1)) /\ Cardinality(1 .. (c - 1)) = c - 1
  <2>1. CASE c = 1
    <3>1. 1 .. (c - 1) = {} BY <2>1
    <3>2. QED BY <3>1, <2>1, FS_EmptySet
  <2>2. CASE c > 1
    <3>1. 1 \in Int /\ c - 1 \in Int /\ 1 <= c - 1 BY <2>2, <1>1
    <3>2. IsFiniteSet(1 .. (c - 1)) /\ Cardinality(1 .. (c - 1)) = IF 1 > c - 1 THEN 0 ELSE (c - 1) - 1 + 1 BY <3>1, FS_Interval
    <3>3. QED BY <3>1, <3>2
  <2>3. QED BY <2>1, <2>2, <1>1, <1>4
<1>10. Cardinality(C!Published) <= c - 1 BY <1>7, <1>9, FS_Subset
<1>11. QED BY <1>10, <1>3, <1>1

\* With the oldest event first, an answer has what matches up to its last event.
LEMMA AnswerClosed ==
  ASSUME CursorInv, ~conf.Descending, NEW f \in C!Answer, NEW e \in C!Matching, e <= f
  PROVE  e \in C!Answer
<1> USE CursorConstants
<1>m. C!Matching \subseteq Events BY CursorAnswer
<1> DEFINE P == {g \in C!Matching : C!Before(g, e)}
           Q == {g \in C!Matching : C!Before(g, f)}
<1>1. f \in C!Matching /\ C!Cardinality(Q) < conf.PageSize BY DEF C!Answer
<1>2. P \subseteq Q
  <2> SUFFICES ASSUME NEW g \in C!Matching, C!Before(g, e) PROVE C!Before(g, f) OBVIOUS
  <2>1. g \in Nat /\ e \in Nat /\ f \in Nat BY <1>m, <1>1 DEF Events
  <2>2. QED BY <2>1 DEF C!Before
<1>3. Q \in SUBSET Events BY <1>m
<1>4. P = {g \in C!Matching : C!Before(g, e)} OBVIOUS
<1> HIDE DEF P, Q
<1>5. IsFiniteSet(Events) BY FS_Interval DEF Events
<1>6. IsFiniteSet(Q) /\ Cardinality(Q) \in Nat BY <1>3, <1>5, FS_Subset, FS_CardinalityType
<1>7. Cardinality(P) <= Cardinality(Q) /\ Cardinality(P) \in Nat BY <1>2, <1>6, FS_Subset, FS_CardinalityType
<1>8. C!Cardinality(P) = Cardinality(P) /\ C!Cardinality(Q) = Cardinality(Q) BY DEF C!Cardinality, Cardinality
<1>9. conf.PageSize \in Nat BY CursorNumbers
<1>10. C!Cardinality(P) < conf.PageSize BY <1>1, <1>6, <1>7, <1>8, <1>9
<1>11. QED BY <1>10, <1>4 DEF C!Answer

\* What is not asked for was taken.
LEMMA UnaskedTaken ==
  ASSUME CursorInv, CursorCoverInv, C!LosesNone, pc = "request", NEW e \in Events, Due(e), e \notin C!Matching
  PROVE  Taken(e)
<1> USE CursorConstants
<1>n. /\ now \in Nat /\ since \in Nat /\ cursor \in {None, 0} \union Events /\ Failed \in Nat /\ Span \in Nat
      /\ drained \in Int /\ deadline \in Nat /\ Interval \in Nat /\ BoxWindow \in Nat /\ conf.Fails \in Nat
      /\ Failed <= conf.Fails /\ created[e] \in Int /\ e \in Nat /\ None = -1
      /\ \A f \in Events : f \in Nat /\ f > 0
  BY CursorNumbers
<1>k. conf.adapter \in C!Adapters /\ CursorKindFacts(conf.adapter, C!kind) /\ AskFacts(conf.adapter, C!kind) /\ CursorLosesFacts
  BY CursorSituation DEF CursorInv, C!TypeOK
<1>c. CursorTimesInv /\ SpanInv /\ PastInv /\ KeptSinceInv /\ BoxKnownInv /\ DrainedInv BY DEF CursorCoverInv
<1>p. e \in C!Published BY DEF Due, C!Published
<1>1. CASE cursor > 0 /\ ~C!Before(cursor, e)
  <2>1. ~conf.Descending
    <3>1. cursor # None BY <1>1, <1>n
    <3>2. conf.Descending => conf.adapter \in {"itglue", "sophos", "slack", "duo", "wiz"} /\ C!OnePage
      BY <1>k DEF CursorLosesFacts, C!Adapters
    <3>3. QED BY <3>1, <3>2, <1>c DEF PastInv
  <2>2. e <= cursor BY <1>1, <2>1, <1>n DEF C!Before
  <2>3. QED BY <2>2, <1>c DEF PastInv
<1>2. CASE ~C!Asked(e)
  <2>1. \/ C!kind.from = "now" /\ cursor = None
        \/ C!kind.from = "interval" /\ cursor = None /\ created[e] < now - Interval
        \/ C!kind.from = "window" /\ cursor = None /\ created[e] < now - BoxWindow
        \/ C!kind.from = "since" /\ created[e] < since
        \/ C!kind.from = "after" /\ created[e] <= since
    BY <1>2, <1>n DEF C!Asked
  <2>2. CASE C!kind.from = "now" /\ cursor = None
    <3>1. conf.adapter = "onepassword" BY <2>2, <1>k DEF AskFacts
    <3>2. QED BY <3>1, <2>2, <1>c DEF PastInv, Due
  <2>w. ASSUME cursor = None, conf.adapter \in {"box", "itglue", "sophos"} PROVE now <= drained + (Failed + 1) * Span
    <3>1. deadline <= drained + (Failed + 1) * Span BY <2>w, <1>c DEF SpanInv, Due
    <3>2. (Failed + 1) * Span \in Nat BY <1>n
    <3>3. now <= deadline BY <1>c DEF CursorTimesInv
    <3> DEFINE s == (Failed + 1) * Span
    <3>4. deadline <= drained + s /\ s \in Nat BY <3>1, <3>2
    <3> HIDE DEF s
    <3>5. now <= drained + s BY ONLY <3>3, <3>4, <1>n
    <3>6. QED BY <3>5 DEF s
  <2>d. created[e] < drained => Taken(e) BY <1>c DEF DrainedInv
  <2>3. CASE C!kind.from = "interval" /\ cursor = None /\ created[e] < now - Interval
    <3>1. conf.adapter \in {"itglue", "sophos"}
      <4>1. conf.adapter # "sophosBool" BY <2>3, <1>c DEF PastInv, Due
      <4>2. QED BY <4>1, <2>3, <1>k DEF AskFacts
    <3>2. conf.MaxBusy = 0 /\ conf.Fails = 0 BY <3>1, <1>k DEF CursorLosesFacts
    <3>3. Failed = 0 /\ Span = Interval BY <3>2, <1>n DEF Span
    <3>4. now <= drained + (Failed + 1) * Span BY <2>w, <2>3, <3>1
    <3>5. (Failed + 1) * Span = Interval BY <3>3, <1>n
    <3>6. now <= drained + Interval BY <3>4, <3>5
    <3>7. QED BY <3>6, <2>3, <2>d, <1>n
  <2>4. CASE C!kind.from = "window" /\ cursor = None /\ created[e] < now - BoxWindow
    <3>1. conf.adapter = "box" BY <2>4, <1>k DEF AskFacts
    <3>2. now <= drained + (Failed + 1) * Span BY <2>w, <2>4, <3>1
    <3>3. (conf.Fails + 1) * Span <= BoxWindow BY <3>1, <1>k DEF CursorLosesFacts
    <3>4. Failed + 1 \in Nat /\ conf.Fails + 1 \in Nat /\ Failed + 1 <= conf.Fails + 1 BY <1>n
    <3>5. /\ (Failed + 1) * Span \in Nat /\ (conf.Fails + 1) * Span \in Nat
          /\ (Failed + 1) * Span <= (conf.Fails + 1) * Span
      BY <3>4, <1>n, Products
    <3> DEFINE s == (Failed + 1) * Span
               t == (conf.Fails + 1) * Span
    <3>6. now <= drained + s /\ s \in Nat /\ t \in Nat /\ s <= t /\ t <= BoxWindow BY <3>2, <3>3, <3>5
    <3> HIDE DEF s, t
    <3>7. created[e] < drained BY <3>6, <2>4, <1>n
    <3>8. QED BY <3>7, <2>d
  <2>5. CASE C!kind.from = "since" /\ created[e] < since BY <2>5, <1>c DEF KeptSinceInv
  <2>6. CASE C!kind.from = "after" /\ created[e] <= since BY <2>6, <1>c DEF KeptSinceInv
  <2>7. QED BY <2>1, <2>2, <2>3, <2>4, <2>5, <2>6
<1>3. QED BY <1>1, <1>2, <1>p DEF C!Matching

\* The last event wiz has seen is not among those it asks for.
LEMMA LastIdNotAsked ==
  ASSUME CursorInv, CursorCoverInv, C!LosesNone, C!kind.from = "after" PROVE lastId \notin C!Answer
<1> SUFFICES ASSUME lastId \in C!Answer PROVE FALSE OBVIOUS
<1>1. lastId \in Events /\ created[lastId] \in Nat /\ C!Asked(lastId) BY CursorAnswer
<1>2. created[lastId] > since BY <1>1 DEF C!Asked
<1>3. lastId # 0 BY <1>1, CursorNumbers
<1>4. created[lastId] <= since BY <1>3 DEF CursorCoverInv, KeptSinceInv
<1>5. QED BY <1>1, <1>2, <1>4, CursorNumbers

\* What an answer has and is not new was taken.
LEMMA AnsweredTaken ==
  ASSUME CursorInv, CursorCoverInv, C!LosesNone, NEW e \in C!Answer, e \notin C!New, Due(e)
  PROVE  Taken(e)
<1>k. CursorKindFacts(conf.adapter, C!kind) BY CursorSituation DEF CursorInv, C!TypeOK
<1>1. ~(C!kind.from = "after" /\ lastId \in C!Answer) BY LastIdNotAsked
<1>2. C!kind.dedupe /\ dedupe[e] # None BY <1>1, CursorConstants DEF C!New
<1>3. conf.adapter = "box" BY <1>2, <1>k DEF CursorKindFacts
<1>4. e \in Events BY CursorAnswer
<1>5. QED BY <1>2, <1>3, <1>4 DEF CursorCoverInv, BoxKnownInv

\* After an answer, all that lies before its last event was taken, and all there is when it
\* leaves nothing behind.
LEMMA AnswerGets ==
  ASSUME CursorInv, CursorCoverInv, C!LosesNone, pc = "request", NEW e \in Events, Due(e),
         \/ C!Answer = C!Matching
         \/ ~conf.Descending /\ \E f \in C!Answer : e <= f
  PROVE  Taken(e) \/ e \in C!New
<1>1. CASE e \notin C!Matching BY <1>1, UnaskedTaken
<1>2. CASE e \in C!Matching
  <2>1. e \in C!Answer BY <1>2, AnswerClosed
  <2>2. QED BY <2>1, AnsweredTaken
<1>3. QED BY <1>1, <1>2


\* The cursor of an answer: it stands for a published event, it is that of the last event
\* answered or the one there was, and in one page it is not given unless always.
LEMMA NextCursorFacts ==
  ASSUME CursorInv, CursorCoverInv
  PROVE  /\ C!NextCursor > 0 => created[C!NextCursor] # None
         /\ C!Position # None
         /\ C!LosesNone /\ C!OnePage /\ conf.adapter \in {"itglue", "sophos", "slack", "duo", "wiz"} => C!NextCursor = None
         /\ C!NextCursor > 0 => C!Answer = {} \/ C!NextCursor \in C!Answer
         /\ C!NextCursor > 0 => C!NextCursor # None
<1> USE CursorConstants
<1>k. conf.adapter \in C!Adapters /\ CursorKindFacts(conf.adapter, C!kind) /\ AskFacts(conf.adapter, C!kind)
  BY CursorSituation DEF CursorInv, C!TypeOK
<1>n. /\ None = -1 /\ conf.PageSize \in Nat \ {0} /\ (\A e \in Events : e \in Nat /\ e > 0)
      /\ cursor \in {None, 0} \union Events /\ N \in Nat
  BY CursorNumbers
<1>m. C!Answer \subseteq Events /\ \A e \in C!Answer : created[e] # None BY CursorAnswer
<1>1. C!Position # None /\ (C!Position > 0 => created[C!Position] # None)
  <2>1. CASE C!Answer # {}
    <3>1. C!Position \in C!Answer BY <2>1, PositionFacts
    <3>2. QED BY <3>1, <1>m, <1>n
  <2>2. CASE C!Answer = {} /\ cursor # None
    <3>1. C!Position = cursor BY <2>2, PositionFacts
    <3>2. QED BY <3>1, <2>2 DEF CursorCoverInv, CursorTimesInv
  <2>3. CASE C!Answer = {} /\ cursor = None
    <3>1. C!Position = C!Cardinality(C!Published) BY <2>3, PositionFacts
    <3>2. C!Cardinality(C!Published) \in Nat BY PublishedCount
    <3>3. QED BY <3>1, <3>2, LastPublished, <1>n
  <2>4. QED BY <2>1, <2>2, <2>3
<1>2. C!NextCursor = None \/ C!NextCursor = C!Position BY PositionFacts
<1>3. C!NextCursor > 0 => C!NextCursor # None BY <1>n
<1>4. C!NextCursor > 0 => C!Answer = {} \/ C!NextCursor \in C!Answer BY <1>2, <1>3, PositionFacts
<1>5. ASSUME C!OnePage, conf.adapter \in {"itglue", "sophos", "slack", "duo", "wiz"} PROVE C!NextCursor = None
  <2>1. CASE conf.adapter \in {"itglue", "sophos", "slack"}
    <3>1. C!kind.cursor = "more" BY <2>1, <1>k DEF AskFacts, CursorKindFacts
    <3>2. C!Answer = C!Matching BY <1>5, AnswerSize
    <3>3. QED BY <3>1, <3>2 DEF C!NextCursor
  <2>2. CASE conf.adapter = "duo"
    <3>1. C!kind.cursor = "full" BY <2>2, <1>k DEF AskFacts
    <3>2. IsFiniteSet(Events) /\ Cardinality(Events) = N BY <1>n, FS_Interval DEF Events
    <3>3. Cardinality(C!Answer) <= N /\ Cardinality(C!Answer) \in Nat BY <1>m, <3>2, FS_Subset, FS_CardinalityType
    <3>4. C!Cardinality(C!Answer) = Cardinality(C!Answer) BY DEF C!Cardinality, Cardinality
    <3>5. C!Cardinality(C!Answer) # conf.PageSize BY <3>3, <3>4, <1>n, <1>5 DEF C!OnePage
    <3>6. QED BY <3>1, <3>5 DEF C!NextCursor
  <2>3. CASE conf.adapter = "wiz"
    <3>1. C!kind.cursor = "never" BY <2>3, <1>k DEF AskFacts
    <3>2. QED BY <3>1 DEF C!NextCursor
  <2>4. QED BY <1>5, <2>1, <2>2, <2>3
<1>6. C!NextCursor > 0 => created[C!NextCursor] # None BY <1>1, <1>2, <1>3
<1>7. QED BY <1>1, <1>3, <1>4, <1>5, <1>6

\* The request before the loop: what it brings was published before.
LEMMA CursorCoverFirst == ASSUME CursorInv, CursorCoverInv, C!FirstRequest \/ C!FirstFails PROVE CursorCoverInv'
<1> USE CursorConstants
<1>t. C!TypeOK /\ KeptInv BY DEF CursorInv
<1>u. UNCHANGED <<conf, now, created, since, lastId, processed, items, shipped>>
  BY DEF C!FirstRequest, C!FirstFails, C!historyVars
<1>r. pc = "first" /\ pc' \in {"wait", "ended"} /\ deadline' = now + Interval BY DEF C!FirstRequest, C!FirstFails
<1>n. /\ now \in Nat /\ since \in Nat /\ conf.MaxBusy \in Nat /\ Interval \in Nat /\ None = -1
      /\ \A e \in Events : created[e] \in Int /\ created[e] <= now
  BY CursorNumbers
<1>k. C!kind' = C!kind /\ (C!LosesNone' <=> C!LosesNone) /\ (C!OnePage' <=> C!OnePage) /\ Span' = Span
  BY <1>u, CursorSituationStays
<1>s. CursorKindFacts(conf.adapter, C!kind) /\ AskFacts(conf.adapter, C!kind) BY <1>t, CursorSituation DEF C!TypeOK
<1>a. conf.adapter \in {"box", "duo"} BY <1>r, <1>t DEF KeptInv
<1>c. CursorTimesInv /\ PastInv /\ KeptSinceInv BY DEF CursorCoverInv
<1>b. begun = None BY <1>r, <1>c DEF CursorTimesInv
<1>x. \/ begun' = now /\ cursor' = C!NextCursor
      \/ begun' = None /\ cursor' \in {cursor, 0}
  BY <1>b DEF C!FirstRequest, C!FirstFails, C!Answered, C!historyVars
<1>d. \A e \in Events : ~Due(e)' BY <1>x, <1>u, <1>n DEF Due
<1>p. ~InPages' BY <1>r DEF InPages
<1>1. CursorTimesInv'
  <2>1. cursor' > 0 => created[cursor'] # None BY <1>x, <1>c, NextCursorFacts DEF CursorTimesInv
  <2>2. QED BY <2>1, <1>u, <1>r, <1>n, <1>c DEF CursorTimesInv
<1>2. SpanInv'
  <2>1. conf.adapter = "box" /\ begun' # None => cursor' # None
    <3>1. conf.adapter = "box" => C!NextCursor = C!Position BY <1>s, PositionFacts DEF CursorKindFacts
    <3>2. QED BY <3>1, <1>x, NextCursorFacts
  <2>2. QED BY <2>1, <1>a, <1>u DEF SpanInv
<1>3. PastInv'
  <2> SUFFICES ASSUME C!LosesNone PROVE PastInv' BY <1>k DEF PastInv
  <2>1. C!OnePage /\ conf.adapter = "duo" => cursor' = None
    <3> SUFFICES ASSUME C!OnePage, conf.adapter = "duo" PROVE cursor' = None OBVIOUS
    <3>1. C!NextCursor = None BY NextCursorFacts
    <3>2. cursor = None BY <1>c DEF PastInv
    <3>3. begun' = None => cursor' = cursor
      <4>1. ~C!kind.dedupe BY <1>s DEF CursorKindFacts
      <4>2. QED BY <4>1, <1>b, <1>n DEF C!FirstRequest, C!FirstFails, C!Answered
    <3>4. QED BY <3>1, <3>2, <3>3, <1>x
  <2>2. QED BY <2>1, <1>a, <1>d, <1>k, <1>u DEF PastInv
<1>4. KeptSinceInv'
  <2> SUFFICES ASSUME C!LosesNone PROVE KeptSinceInv' BY <1>k DEF KeptSinceInv
  <2>1. C!kind.from # "after" BY <1>a, <1>s DEF CursorKindFacts
  <2>2. ASSUME C!kind.from = "since", since > 0 PROVE \E m \in Events : created[m] # None /\ since <= created[m] + 1
    <3>1. PICK m \in Events : created[m] # None
                             /\ since <= created[m] + (IF C!kind.from = "after" \/ InPages THEN 0 ELSE 1)
      BY <2>2, <1>c DEF KeptSinceInv
    <3>2. since <= created[m] + 1 BY <3>1, <1>n
    <3>3. QED BY <3>1, <3>2
  <2>3. QED BY <2>1, <2>2, <1>d, <1>p, <1>k, <1>u DEF KeptSinceInv
<1>5. BoxKnownInv' /\ DrainedInv' BY <1>d DEF BoxKnownInv, DrainedInv
<1>6. QED BY <1>1, <1>2, <1>3, <1>4, <1>5 DEF CursorCoverInv

\* A request is answered: what the cursor, the time kept and the dedupe map now stand for was
\* taken, with the events that are new.
LEMMA CursorCoverRequest == ASSUME CursorInv, CursorCoverInv, C!Request PROVE CursorCoverInv'
<1> USE CursorConstants
<1>t. C!TypeOK /\ KeptInv /\ PublishedInOrder BY DEF CursorInv
<1>u. UNCHANGED <<conf, now, created, deadline, fails, shipped>> BY DEF C!Request
<1>r. /\ pc = "request" /\ pc' = "ship" /\ items' = C!New /\ dedupe' = C!Deduped /\ since' = C!KeptTime
      /\ lastId' = (IF C!kind.from = "after" /\ C!New # {} THEN C!LastOf(C!New) ELSE lastId)
      /\ cursor' = C!NextCursor \/ (C!kind.zero /\ C!Answer = {} /\ cursor' = None)
      /\ begun' = (IF begun = None THEN now ELSE begun) /\ drained' = (IF C!Answer = C!Matching THEN now ELSE drained)
  BY DEF C!Request, C!Answered
<1>n. /\ now \in Nat /\ since \in Nat /\ conf.MaxBusy \in Nat /\ Interval \in Nat /\ None = -1 /\ Failed \in Nat /\ Span \in Nat
      /\ drained \in Int /\ deadline \in Nat
      /\ \A e \in Events : created[e] \in Int /\ created[e] <= now /\ e \in Nat /\ e > 0
  BY CursorNumbers
<1>k. C!kind' = C!kind /\ (C!LosesNone' <=> C!LosesNone) /\ (C!OnePage' <=> C!OnePage) /\ Span' = Span
  BY <1>u, CursorSituationStays
<1>s. conf.adapter \in C!Adapters /\ CursorKindFacts(conf.adapter, C!kind) /\ AskFacts(conf.adapter, C!kind)
      /\ (C!LosesNone => CursorLosesFacts)
  BY <1>t, CursorSituation DEF C!TypeOK
<1>c. CursorTimesInv /\ SpanInv /\ PastInv /\ KeptSinceInv /\ BoxKnownInv /\ DrainedInv BY DEF CursorCoverInv
<1>a. C!New \subseteq C!Answer /\ C!Answer \subseteq Events /\ \A e \in C!Answer : created[e] # None BY CursorAnswer
<1>d. \A e \in Events : Due(e)' => Due(e) BY <1>u, <1>r, <1>n DEF Due
<1>T. \A e \in Events : Taken(e) \/ e \in C!New => Taken(e)' BY <1>u, <1>r, <1>t DEF Taken, KeptInv
<1>G. ASSUME C!LosesNone, NEW e \in Events, Due(e)',
             \/ C!Answer = C!Matching
             \/ ~conf.Descending /\ \E f \in C!Answer : e <= f
      PROVE  Taken(e)'
  <2>1. Taken(e) \/ e \in C!New BY <1>G, <1>d, <1>r, AnswerGets
  <2>2. QED BY <2>1, <1>T
<1>z. C!kind.zero => conf.adapter = "box" BY <1>s DEF CursorKindFacts
<1>e. C!Answer = {} => C!Answer = C!Matching BY AnswerSize
<1>1. CursorTimesInv'
  <2>1. cursor' > 0 => created[cursor'] # None BY <1>r, <1>n, NextCursorFacts
  <2>2. deadline <= now + conf.MaxBusy /\ now <= deadline BY <1>c, <1>r DEF CursorTimesInv
  <2>3. QED BY <2>1, <2>2, <1>u, <1>r, <1>c DEF CursorTimesInv
<1>2. SpanInv'
  <2> SUFFICES ASSUME C!LosesNone, conf.adapter \in {"box", "itglue", "sophos"}, cursor' = None PROVE SpanInv'
    BY <1>k, <1>u DEF SpanInv
  <2>1. C!Answer = C!Matching
    <3>1. CASE conf.adapter = "box"
      <4>1. C!NextCursor # None
        <5>1. C!NextCursor = C!Position BY <3>1, <1>s, PositionFacts DEF CursorKindFacts
        <5>2. QED BY <5>1, NextCursorFacts
      <4>2. QED BY <4>1, <1>r, <1>e
    <3>2. CASE conf.adapter \in {"itglue", "sophos"} BY <3>2, <1>s, AnswerSize DEF CursorLosesFacts
    <3>3. QED BY <3>1, <3>2
  <2>2. drained' = now /\ deadline' <= now + conf.MaxBusy BY <2>1, <1>r, <1>u, <1>c DEF CursorTimesInv
  <2>3. Failed' = Failed BY <1>u DEF Failed
  <2>4. Failed * Span \in Nat BY <1>n
  <2>5. deadline' <= drained' + conf.MaxBusy + Failed' * Span'
    <3> DEFINE s == Failed * Span
    <3>1. s \in Nat BY <2>4
    <3>2. deadline <= now + conf.MaxBusy BY <2>2, <1>u
    <3> HIDE DEF s
    <3>3. deadline <= now + conf.MaxBusy + s BY ONLY <3>1, <3>2, <1>n
    <3>4. QED BY <3>3, <2>2, <2>3, <1>k, <1>u DEF s
  <2>6. QED BY <2>2, <2>5, <1>r, <1>n, <1>u DEF SpanInv
<1>3. PastInv'
  <2> SUFFICES ASSUME C!LosesNone PROVE PastInv' BY <1>k DEF PastInv
  <2>1. C!OnePage /\ conf.adapter \in {"itglue", "sophos", "slack", "duo", "wiz"} => cursor' = None
    BY <1>r, NextCursorFacts
  <2>2. conf.adapter \in {"onepassword", "sophosBool"} => cursor' # None
    <3> SUFFICES ASSUME conf.adapter \in {"onepassword", "sophosBool"} PROVE cursor' # None OBVIOUS
    <3>1. C!NextCursor = C!Position BY <1>s, PositionFacts DEF CursorKindFacts
    <3>2. cursor' = C!NextCursor BY <1>r, <1>z
    <3>3. QED BY <3>1, <3>2, NextCursorFacts
  <2>3. ASSUME NEW e \in Events, Due(e)', e <= cursor' PROVE Taken(e)'
    <3>1. cursor' # None /\ cursor' = C!NextCursor BY <2>3, <1>r, <1>n
    <3>2. C!NextCursor > 0
      <4>1. C!NextCursor \in Int BY PositionFacts, <1>n
      <4>2. e <= C!NextCursor BY <2>3, <3>1
      <4>3. QED BY <4>1, <4>2, <1>n
    <3>3. C!Answer = {} \/ C!NextCursor \in C!Answer BY <3>2, NextCursorFacts
    <3>4. ~conf.Descending BY <3>1, <2>1, <1>s DEF CursorLosesFacts, C!Adapters
    <3>5. QED BY <3>1, <3>3, <3>4, <2>3, <1>G, <1>e
  <2>4. QED BY <2>1, <2>2, <2>3, <1>k, <1>u DEF PastInv
<1>5. BoxKnownInv'
  <2> SUFFICES ASSUME C!LosesNone, conf.adapter = "box", NEW e \in Events, dedupe'[e] # None, Due(e)' PROVE Taken(e)'
    BY <1>k, <1>u DEF BoxKnownInv
  <2>1. dedupe[e] # None \/ e \in C!New
    <3> DEFINE D == [x \in Events |-> IF x \in C!New THEN created[x] ELSE dedupe[x]]
    <3>1. C!Deduped = C!Cull(D) BY <1>s DEF C!Deduped, CursorKindFacts
    <3>2. D[e] = IF e \in C!New THEN created[e] ELSE dedupe[e] OBVIOUS
    <3> HIDE DEF D
    <3>3. C!Cull(D)[e] # None => D[e] # None BY DEF C!Cull
    <3>4. QED BY <3>1, <3>2, <3>3, <1>r
  <2>2. dedupe[e] # None => Taken(e) BY <1>d, <1>c DEF BoxKnownInv
  <2>3. QED BY <2>1, <2>2, <1>T
<1>6. DrainedInv'
  <2> SUFFICES ASSUME C!LosesNone, NEW e \in Events, Due(e)', created[e] < drained' PROVE Taken(e)'
    BY <1>k, <1>u DEF DrainedInv
  <2>1. CASE C!Answer = C!Matching BY <2>1, <1>G
  <2>2. CASE C!Answer # C!Matching
    <3>1. Taken(e) BY <2>2, <1>r, <1>d, <1>c DEF DrainedInv
    <3>2. QED BY <3>1, <1>T
  <2>3. QED BY <2>1, <2>2
<1>7. KeptSinceInv'
  <2> SUFFICES ASSUME C!LosesNone PROVE KeptSinceInv' BY <1>k DEF KeptSinceInv
  <2>l. CursorLosesFacts BY <1>s
  <2>p. /\ InPages' <=> processed'
        /\ processed' <=> C!kind.pages /\ (processed \/ C!New # {})
        /\ InPages <=> processed
        /\ C!kind.pages <=> conf.adapter = "slack"
        /\ processed => conf.adapter = "slack"
    BY <1>r, <1>s, <1>t DEF InPages, C!Request, KeptInv, C!TypeOK, CursorKindFacts
  <2>1. CASE C!kind.from \notin {"since", "after"}
    <3>1. ~processed' BY <2>1, <2>p, <1>s DEF AskFacts
    <3>2. QED BY <2>1, <3>1, <2>p, <1>k DEF KeptSinceInv
  <2>2. CASE C!New = {} /\ C!kind.from \in {"since", "after"}
    <3>1. since' = since /\ lastId' = lastId /\ (processed' => processed) BY <2>2, <1>r, <2>p, KeptTimeFacts
    <3>2. since > 0 =>
            \E m \in Events : created[m] # None
                              /\ since <= created[m] + (IF C!kind.from = "after" \/ InPages' THEN 0 ELSE 1)
      <4> SUFFICES ASSUME since > 0
                   PROVE  \E m \in Events : created[m] # None
                            /\ since <= created[m] + (IF C!kind.from = "after" \/ InPages' THEN 0 ELSE 1)
        OBVIOUS
      <4>1. PICK m \in Events : created[m] # None
                               /\ since <= created[m] + (IF C!kind.from = "after" \/ InPages THEN 0 ELSE 1)
        BY <2>2, <1>c DEF KeptSinceInv
      <4>2. since <= created[m] + (IF C!kind.from = "after" \/ InPages' THEN 0 ELSE 1) BY <4>1, <3>1, <2>p, <1>n
      <4>3. QED BY <4>1, <4>2
    <3>3. C!kind.from = "since" =>
            \A e \in Events : Due(e)' /\ (created[e] < since \/ (InPages' /\ created[e] = since)) => Taken(e)'
      BY <3>1, <2>p, <1>d, <1>T, <1>c DEF KeptSinceInv
    <3>4. C!kind.from = "after" => \A e \in Events : Due(e)' /\ created[e] <= since => Taken(e)'
      BY <1>d, <1>T, <1>c DEF KeptSinceInv
    <3>5. (C!kind.from = "after" /\ lastId # 0 => created[lastId] # None /\ created[lastId] <= since)
          /\ (InPages' => since > 0)
      BY <3>1, <2>p, <1>c DEF KeptSinceInv
    <3>6. QED BY <3>1, <3>2, <3>3, <3>4, <3>5, <1>k, <1>u DEF KeptSinceInv
  <2>3. CASE C!New # {} /\ C!kind.from = "since"
    <3>a. conf.adapter \in {"slack", "duo"} BY <2>3, <1>s DEF AskFacts
    <3>1. PICK m \in C!New : \/ since' = created[m] /\ processed'
                             \/ since' = created[m] + 1 /\ ~processed'
      <4>1. CASE conf.adapter = "slack"
        <5>1. C!kind.keep = "newest" BY <4>1, <1>s DEF CursorKindFacts
        <5>2. processed' BY <4>1, <2>3, <2>p
        <5>3. QED BY <5>1, <5>2, <2>3, <1>r, KeptTimeFacts
      <4>2. CASE conf.adapter = "duo"
        <5>1. C!kind.keep = "lastPlus" BY <4>2, <1>s DEF CursorKindFacts
        <5>2. ~processed' BY <4>2, <2>p
        <5>3. C!LastOf(C!New) \in C!New
          <6>1. C!New \subseteq Events BY <1>a
          <6>2. QED BY <6>1, <2>3, EndsExist
        <5>4. since' = created[C!LastOf(C!New)] + 1 BY <5>1, <2>3, <1>r, KeptTimeFacts
        <5>5. QED BY <5>2, <5>3, <5>4
      <4>3. QED BY <3>a, <4>1, <4>2
    <3>2. m \in Events /\ m \in C!Answer /\ created[m] # None BY <1>a
    <3>3. \E x \in Events : created[x] # None /\ since' <= created[x] + (IF InPages' THEN 0 ELSE 1)
      BY <3>1, <3>2, <2>p, <1>n
    <3>4. ASSUME NEW e \in Events, Due(e)', created[e] < since' \/ (InPages' /\ created[e] = since') PROVE Taken(e)'
      <4>1. created[e] <= created[m] BY <3>4, <3>1, <3>2, <2>p, <1>n
      <4>2. e <= m
        <5>1. ~conf.Ties BY <3>a, <2>l DEF CursorLosesFacts
        <5>2. created[e] # None BY <3>4, <1>u DEF Due
        <5>3. m < e => created[m] < created[e] BY <5>1, <5>2, <3>2, <1>t DEF PublishedInOrder
        <5>4. QED BY <5>3, <4>1, <3>2, <1>n
      <4>3. C!Answer = C!Matching \/ ~conf.Descending BY <2>l, AnswerSize DEF CursorLosesFacts
      <4>4. QED BY <4>2, <4>3, <3>2, <3>4, <1>G
    <3>5. InPages' => since' > 0 BY <3>1, <3>2, <2>p, <1>c DEF CursorTimesInv
    <3>6. QED BY <3>3, <3>4, <3>5, <2>3, <1>k, <1>u DEF KeptSinceInv
  <2>4. CASE C!New # {} /\ C!kind.from = "after"
    <3>a. conf.adapter = "wiz" BY <2>4, <1>s DEF CursorKindFacts
    <3>1. C!OnePage /\ conf.Descending /\ C!Answer = C!Matching BY <3>a, <2>l, AnswerSize DEF CursorLosesFacts
    <3>2. C!New = C!Answer
      <4>1. lastId \notin C!Answer BY <2>4, LastIdNotAsked
      <4>2. ~C!kind.dedupe BY <3>a, <1>s DEF CursorKindFacts
      <4>3. QED BY <4>1, <4>2 DEF C!New
    <3> DEFINE x == C!FirstOf(C!Answer)
               l == C!LastOf(C!New)
    <3>3. /\ x \in C!Answer /\ \A f \in C!Answer : f = x \/ C!Before(x, f)
          /\ l \in C!New
      BY <3>2, <2>4, <1>a, EndsExist
    <3>4. since' = created[x]
      <4>1. C!kind.keep = "first" BY <3>a, <1>s DEF CursorKindFacts
      <4>2. QED BY <4>1, <3>2, <3>3, <2>4, <1>r, KeptTimeFacts
    <3>5. lastId' = l BY <2>4, <1>r
    <3> HIDE DEF x, l
    <3>6. x \in Events /\ l \in Events /\ created[x] # None /\ created[l] # None BY <3>3, <1>a
    <3>7. created[l] <= created[x]
      <4>1. l = x \/ l < x BY <3>1, <3>2, <3>3, <3>6 DEF C!Before
      <4>2. QED BY <4>1, <3>6, <1>n, <1>t DEF PublishedInOrder
    <3>8. \A e \in Events : Due(e)' => Taken(e)' BY <3>1, <1>G
    <3>9. ~processed' BY <2>p, <3>a
    <3>10. since' <= created[x] + 0 BY <3>4, <3>6, <1>n
    <3>11. QED BY <3>4, <3>5, <3>6, <3>7, <3>8, <3>9, <3>10, <2>4, <2>p, <1>k, <1>u DEF KeptSinceInv
  <2>5. QED BY <2>1, <2>2, <2>3, <2>4
<1>8. QED BY <1>1, <1>2, <1>3, <1>5, <1>6, <1>7 DEF CursorCoverInv


\* Every step of a cursor poller keeps it.
LEMMA CursorCoverStep == ASSUME CursorInv, CursorCoverInv, C!Next PROVE CursorCoverInv'
<1> USE CursorConstants
<1>t. C!TypeOK /\ KeptInv BY DEF CursorInv
<1>n. now \in Nat /\ deadline \in Nat /\ (pc \notin {"ended", "first"} => now <= deadline)
      /\ \A e \in Events : shipped[e] \in Nat
  BY CursorNumbers DEF CursorCoverInv, CursorTimesInv
<1>s. C!kind.pages <=> conf.adapter = "slack" BY <1>t, CursorSituation DEF C!TypeOK, CursorKindFacts
<1>1. CASE \/ C!Tick \/ C!WaitStopped \/ C!SlackNotOK \/ C!SlackFails \/ C!ShipFails \/ C!NextPage
           \/ C!CloseStop \/ C!CloseWait \/ C!Stopped
  <2> USE DEF C!Tick, C!WaitStopped, C!SlackNotOK, C!SlackFails, C!ShipFails, C!NextPage, C!CloseStop, C!CloseWait, C!Stopped,
              C!vars, C!keptVars, C!historyVars
  <2>1. UNCHANGED <<conf, created, deadline, since, lastId, processed, dedupe, begun, drained, items, shipped>> BY <1>1
  <2>2. cursor' = cursor \/ (cursor' = None /\ conf.adapter = "slack") BY <1>1, <1>s
  <2>3. fails' = fails \/ conf.adapter = "slack" BY <1>1, <1>s
  <2>4. \A e \in Events : Taken(e) => Taken(e)' BY <2>1 DEF Taken
  <2>5. pc' \in {pc, "ended"} \/ (pc \in {"request", "ship"} /\ pc' \in {"request", "ship"} /\ conf.adapter = "slack")
    BY <1>1, <1>s
  <2>6. now' \in Nat /\ now <= now' /\ (pc' \notin {"ended", "first"} => now' <= deadline)
    <3>1. CASE C!Tick
      <4>1. now' = now + 1 /\ now < deadline BY <3>1
      <4>2. QED BY <4>1, <1>n
    <3>2. CASE ~C!Tick
      <4>1. now' = now BY <3>2, <1>1
      <4>2. pc' \notin {"ended", "first"} => pc \notin {"ended", "first"} BY <2>5
      <4>3. QED BY <4>1, <4>2, <1>n
    <3>3. QED BY <3>1, <3>2
  <2> HIDE DEF C!Tick, C!WaitStopped, C!SlackNotOK, C!SlackFails, C!ShipFails, C!NextPage, C!CloseStop, C!CloseWait, C!Stopped
  <2>7. QED BY <2>1, <2>2, <2>3, <2>4, <2>5, <2>6, CursorCoverQuiet
<1>2. ASSUME NEW s \in Events, C!Ship(s) PROVE CursorCoverInv'
  <2>1. UNCHANGED <<conf, now, created, pc, deadline, cursor, since, lastId, processed, dedupe, fails, begun, drained>>
    BY <1>2 DEF C!Ship, C!keptVars
  <2>2. pc = "ship" /\ items' = items \ {s} /\ shipped' = [shipped EXCEPT ![s] = IF @ = 2 THEN 2 ELSE @ + 1]
    BY <1>2 DEF C!Ship
  <2>3. shipped'[s] > 0 /\ \A e \in Events : e # s => shipped'[e] = shipped[e]
    <3>1. shipped \in [Events -> 0 .. 2] BY <1>t DEF C!TypeOK
    <3>2. QED BY <3>1, <2>2
  <2>4. \A e \in Events : Taken(e) => Taken(e)' BY <2>2, <2>3 DEF Taken
  <2>5. QED BY <2>1, <2>2, <2>4, <1>n, CursorCoverQuiet
<1>3. CASE C!Cycle
  BY <1>1, <1>2, <1>3, CursorCoverFirst, CursorCoverRequest, CursorCoverBegins, CursorCoverFails, CursorCoverShippedAll
  DEF C!Cycle
<1>4. QED BY <1>1, <1>3, CursorCoverPublish DEF C!Next

\* The claim: when a cursor poller waits, nothing is left to ship of what was taken.
LEMMA CursorMissesNone == CursorInv /\ CursorCoverInv => C!NextCycleShips
<1> USE CursorConstants
<1> SUFFICES ASSUME CursorInv, CursorCoverInv, C!LosesNone, pc = "wait", begun # None, NEW e \in C!Published,
                    begun < created[e], created[e] < drained
             PROVE shipped[e] > 0
  BY DEF C!NextCycleShips
<1>1. e \in Events /\ Due(e) BY DEF C!Published, Due
<1>2. Taken(e) BY <1>1 DEF CursorCoverInv, DrainedInv
<1>3. items = {} BY DEF CursorInv, KeptInv
<1>4. QED BY <1>2, <1>3 DEF Taken

-----------------------------------------------------------------------------
(***************************************************************************)
(* The adapter that was chosen keeps its invariant; the variables of the   *)
(* others are out of its reach.                                            *)
(***************************************************************************)
AllInv ==
  /\ which = "window" => WindowInv /\ CoverInv
  /\ which = "cursor" => CursorInv /\ CursorCoverInv
  /\ which = "cato" => CatoInv

\* Every step of the adapter that was chosen keeps its invariant.
LEMMA AllStep == AllInv /\ [AllNext]_AllVars => AllInv'
<1>1. ASSUME AllInv, AllNext PROVE AllInv'
  <2>1. CASE which = "window" /\ Next /\ which' = which BY <2>1, <1>1, WindowStep, CoverStep DEF AllInv
  <2>2. CASE which = "cursor" /\ C!Next /\ which' = which BY <2>2, <1>1, CursorStep, CursorCoverStep DEF AllInv
  <2>3. CASE which = "cato" /\ A!Next /\ which' = which BY <2>3, <1>1, CatoStep DEF AllInv
  <2>4. QED BY <1>1, <2>1, <2>2, <2>3 DEF AllNext
<1>2. ASSUME AllInv, UNCHANGED AllVars PROVE AllInv'
  <2>1. UNCHANGED <<which, conf, pc, shipped, now, created, deadline, since, lastId, dedupe, items, fails, isStop, closer>>
    BY <1>2 DEF AllVars, commonVars, pollVars
  <2>2. UNCHANGED <<start, until, last, page, asked, cursor, processed, begun, drained>>
    BY <1>2 DEF AllVars, windowOnly, cursorOnly
  <2>3. UNCHANGED <<feed, retries, attempts, marker, file, batch, starts, why, dropped>>
    BY <1>2 DEF AllVars, catoOnly
  <2>4. CASE which = "window"
    <3>1. isStop \in BOOLEAN /\ closer \in {"no", "wait", "closed"} /\ WindowInv /\ CoverInv
      BY <2>4, <1>2 DEF AllInv, WindowInv, TypeOK
    <3>2. WindowInv' BY <3>1, <2>1, <2>2, WindowQuiet
    <3>3. CoverInv'
      <4>1. pc' # "ended" => now' <= deadline BY <3>1, <2>1 DEF CoverInv, TimesInv
      <4>2. QED BY <3>1, <4>1, <2>1, <2>2, CoverQuiet
    <3>4. QED BY <3>2, <3>3, <2>4, <2>1 DEF AllInv
  <2>5. CASE which = "cursor"
    <3>1. isStop \in BOOLEAN /\ closer \in {"no", "wait", "closed"} /\ CursorInv /\ CursorCoverInv
      BY <2>5, <1>2 DEF AllInv, CursorInv, C!TypeOK
    <3>2. CursorInv' BY <3>1, <2>1, <2>2, CursorQuiet
    <3>3. CursorCoverInv'
      <4>1. now \in Nat /\ (pc \notin {"ended", "first"} => now <= deadline)
        BY <3>1, CursorNumbers DEF CursorCoverInv, CursorTimesInv
      <4>2. \A e \in Events : Taken(e) => Taken(e)' BY <2>1 DEF Taken
      <4>3. QED BY <3>1, <4>1, <4>2, <2>1, <2>2, CursorCoverQuiet
    <3>4. QED BY <3>2, <3>3, <2>5, <2>1 DEF AllInv
  <2>6. CASE which = "cato"
    <3>1. CatoInv BY <2>6, <1>2 DEF AllInv
    <3>2. UNCHANGED A!vars BY <2>1, <2>3 DEF A!vars
    <3>3. CatoInv' BY <3>1, <3>2, CatoStutter
    <3>4. QED BY <3>3, <2>6, <2>1 DEF AllInv
  <2>7. QED BY <2>4, <2>5, <2>6, <2>1 DEF AllInv
<1>3. QED BY <1>1, <1>2

\* The invariants hold whatever adapter was chosen, in whatever situation.
LEMMA AllInvariant == AllSpec => []AllInv
<1>1. AllInit => AllInv BY WindowInit, CoverInit, CursorInit, CursorCoverInit, CatoInit DEF AllInit, AllInv
<1>2. QED BY <1>1, AllStep, PTL DEF AllSpec

\* Type correctness of all the polling adapters: no time, cursor, page number or counter
\* leaves its range, whatever the API answers.
THEOREM PollersTypeCorrect == AllSpec => []PollersTypeOK
<1>1. AllInv => PollersTypeOK BY DEF AllInv, WindowInv, CursorInv, CatoInv, PollersTypeOK
<1>2. QED BY <1>1, AllInvariant, PTL

\* No event is shipped twice (NoEventTwice): by the window pollers although their windows
\* overlap, by the cursor pollers although requests fail and cursors are lost, and by cato
\* unless the process was started again.
THEOREM NothingShippedTwice == AllSpec => []NoEventTwice
<1>1. WindowInv => NoneShippedTwice BY DEF WindowInv, OnceInv, NoneShippedTwice
<1>2. CursorInv => C!NoneShippedTwice BY CursorConstants DEF CursorInv, CursorOnce, C!NoneShippedTwice
<1>3. AllInv => NoEventTwice BY <1>1, <1>2 DEF AllInv, CatoInv, NoEventTwice
<1>4. QED BY <1>3, AllInvariant, PTL

\* No event is missed (NoEventMissed): in the situations of LosesNone, an event that was
\* published before a window was asked for, or before an answer that left nothing behind, is
\* shipped when the adapter waits for its next cycle, whatever requests have failed, however
\* the answers were cut into pages and whatever the dedupe maps have dropped.
THEOREM NothingMissed == AllSpec => []NoEventMissed
<1>1. AllInv => NoEventMissed BY WindowMissesNone, CursorMissesNone DEF AllInv, NoEventMissed
<1>2. QED BY <1>1, AllInvariant, PTL

\* cato: whatever the moment at which the process dies, no event before the saved marker is
\* missing.
THEOREM MarkerIsSafe == AllSpec => []SavedIsShipped
<1>1. AllInv => SavedIsShipped BY DEF AllInv, CatoInv, SavedIsShipped
<1>2. QED BY <1>1, AllInvariant, PTL
=============================================================================
