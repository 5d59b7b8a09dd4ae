----------------------------- MODULE TailProofs -----------------------------
(***************************************************************************)
(* Proofs about the adapters that follow text files: the types, that every *)
(* open tail has its entry, that nothing is shipped behind a closed client *)
(* (of k8s_pods: at most one line), that no line is shipped twice, and     *)
(* when k8s_pods crashes.                                                  *)
(***************************************************************************)
EXTENDS TailAdapters, Sequences, FiniteSetTheorems, WellFoundedInduction, TLAPS

-----------------------------------------------------------------------------
(***************************************************************************)
(* The file adapter.                                                       *)
(***************************************************************************)
\* A file is reopened because its entry is inactive, and opened because it has none; a
\* cycle looks first at files that have entries.
PollInv ==
  /\ poll \in {"reopen", "open"} => stat # NoLine
  /\ poll = "reopen" => slot[stat[1]].inactive
  /\ poll = "open" => slot[stat[1]] = NoEntry
  /\ poll \in {"check", "reopen"} => \A f \in todo : Listed(f)

\* With serialize_files a handler that reads holds the semaphore.
FeedInv == conf.SerializeFiles => \A t \in Tails : tl[t].pc \in {"loop", "ship"} => serialFeed = t

\* Once Close has returned, nothing moves any more.
ClosedInv == closer = "closed" => poll = "exited" /\ \A t \in Tails : tl[t].pc = "none"

\* An undisturbed file keeps its inode, and its entry the tail it got first; what was
\* shipped of it lies behind the position of that tail.
FilesStay ==
  /\ \A f \in Files : disk[f] = used[f] /\ used[f] \in {0, 1}
  /\ \A f \in Files : Listed(f) => slot[f].inode = 1 /\ disk[f] = 1 /\ ~slot[f].inactive
  /\ stat # NoLine => stat[2] = 1
TailsStay ==
  \A t \in Tails : tl[t] # NoTail =>
    /\ slot[tl[t].file].tail = t /\ tl[t].gen = 1
    /\ tl[t].pc = "ship" => tl[t].line = <<1, tl[t].pos>>
ShippedBehind ==
  \A x \in shipped :
    /\ Listed(x[1])
    /\ \A t \in Tails : tl[t] # NoTail /\ tl[t].file = x[1] =>
         x[3] <= tl[t].pos /\ (tl[t].pc = "ship" => x[3] < tl[t].pos)
StayInv == Undisturbed => FilesStay /\ TailsStay /\ ShippedBehind /\ again = {}

FileInv == TypeOK /\ PollInv /\ LiveTailIsListed /\ FeedInv /\ ClosedInv /\ StayInv

-----------------------------------------------------------------------------
(***************************************************************************)
(* k8s_pods.                                                               *)
(***************************************************************************)
\* A tail that is open is that of curFile, whose watcher has not returned.
KCurInv ==
  \A w \in K!Watch :
    /\ kCw[w] = "stopping" => kCur[w] # K!None
    /\ \A l \in K!Logs : kTail[w][l] \in {"open", "ending"} => kCur[w] = l /\ kCw[w] \in {"loop", "stopping"}

\* A line in the hands of processFile is the last that was read, by a watcher that was started.
KHandInv ==
  \A w \in K!Watch : \A l \in K!Logs :
    kHand[w][l] \notin {K!NoLine, K!Done} => kHand[w][l] = <<w[1], l, kRead[w][l]>> /\ kCw[w] # "no"

KLateInv ==
  kLate # {} => kCloser = "closed" /\ kConsumer \in {K!NoLine, K!Done} /\ \E x \in K!Line : kLate = {x}

\* Containers are created in their pod, and started by a watcher of it.
KStartInv ==
  /\ \A p \in Pods : \A k \in K!Copies :
       /\ \A i \in 1 .. Len(kPq[p][k]) : kPq[p][k][i].op = "create" =>
            kPq[p][k][i].name \in Containers /\ kConf.podOf[kPq[p][k][i].name] = p
       /\ kPw[p][k] # "no" => K!Matches(p)
  /\ \A w \in K!Watch : kCw[w] # "no" => kPw[kConf.podOf[w[1]]][w[2]] # "no"

\* When nothing raced a pod is started once.
KOnceInv ==
  /\ kRoot = "init" => kRootQ = <<>>
  /\ \A p \in Pods : kPw[p][2] = "no" /\ (kPod[p] = "no" => kPw[p][1] = "no")
  /\ \A i \in 1 .. Len(kRootQ) :
       /\ kPod[kRootQ[i]] # "no" /\ kPw[kRootQ[i]][1] = "no"
       /\ \A j \in 1 .. Len(kRootQ) : kRootQ[i] = kRootQ[j] => i = j

\* What was delivered was read before.
Delivered == kShipped \union ({kConsumer} \ {K!NoLine, K!Done})
KReadInv ==
  /\ \A x \in Delivered :
       /\ x[3] <= kRead[<<x[1], 1>>][x[2]] /\ K!Matches(kConf.podOf[x[1]])
       /\ kHand[<<x[1], 1>>][x[2]] \notin {K!NoLine, K!Done} => x[3] < kRead[<<x[1], 1>>][x[2]]
  /\ kConsumer \notin kShipped /\ kAgain = {}

\* Unless something is removed, a container is stopped when its pod is, by Close.
KKeptInv ==
  ~kConf.Removes =>
    /\ \A p \in Pods : \A k \in K!Copies : \A i \in 1 .. Len(kPq[p][k]) : kPq[p][k][i].op = "create"
    /\ \A w \in K!Watch : \A i \in 1 .. Len(kCq[w]) : kCq[w][i].op = "create"
    /\ kStop # {} => kCloser # "no"
    /\ K!CrashNeedsBareContainer

K8sInv ==
  /\ K!TypeOK /\ KCurInv /\ KHandInv /\ KLateInv /\ KStartInv /\ KKeptInv
  /\ ~kRaced => KOnceInv /\ KReadInv

AdaptersInv == FileInv /\ K8sInv

-----------------------------------------------------------------------------
\* The types of the constants and of the configuration in use.
LEMMA FileConstants ==
  ASSUME conf \in Confs
  PROVE /\ MaxGen \in Nat /\ MaxGen > 0 /\ MaxLines \in Nat /\ MaxLines > 0
        /\ \A t \in Tails : t \in Nat /\ t # 0
        /\ conf.gens \in 1 .. MaxGen /\ conf.lines \in 0 .. MaxLines /\ conf.files \subseteq Files /\ conf.tails \subseteq Tails
        /\ conf.removed \in BOOLEAN /\ conf.Inactivity \in BOOLEAN /\ conf.SerializeFiles \in BOOLEAN
BY TailAssumption DEF Conf

\* What is in the table of tails.
TailType ==
  [pc : {"none", "start", "acquire", "loop", "ship"}, open : BOOLEAN, file : Files \union {None},
   gen : Gens \union {None}, pos : 0 .. MaxLines, line : (Gens \X (1 .. MaxLines)) \union {NoLine}]
SlotType == [tail : Tails, inode : Gens, inactive : BOOLEAN] \union {NoEntry}

LEMMA EmptyTail == ASSUME conf \in Confs PROVE NoTail \in TailType
BY FileConstants DEF NoTail, TailType, NoLine, None

\* An entry that is not empty has a tail.
LEMMA EntryHasTail ==
  ASSUME conf \in Confs, slot \in [Files -> SlotType], NEW f \in Files
  PROVE /\ slot[f].inactive \in BOOLEAN
        /\ Listed(f) => slot[f].tail \in Tails /\ slot[f].inode \in Gens
        /\ ~Listed(f) => slot[f].tail = None /\ slot[f].inode = None /\ ~slot[f].inactive
        /\ \A t \in Tails : slot[f].tail = t => Listed(f)
<1> USE FileConstants
<1>1. slot[f] \in SlotType OBVIOUS
<1>2. NoEntry.tail = None /\ NoEntry.inode = None /\ NoEntry.inactive = FALSE BY DEF NoEntry
<1>3. CASE Listed(f)
  <2>1. slot[f] \in [tail : Tails, inode : Gens, inactive : BOOLEAN] BY <1>1, <1>3 DEF SlotType, Listed
  <2>2. QED BY <1>3, <2>1
<1>4. CASE ~Listed(f)
  <2>1. slot[f] = NoEntry BY <1>4 DEF Listed
  <2>2. QED BY <1>2, <1>4, <2>1 DEF None
<1>5. QED BY <1>3, <1>4

\* The first state.
LEMMA FileInit == Init => FileInv
<1> SUFFICES ASSUME Init PROVE FileInv OBVIOUS
<1>c. conf \in Confs BY DEF Init
<1> USE <1>c, FileConstants
<1>1. TypeOK
  <2>1. disk \in [Files -> Gens \union {None}] /\ used \in [Files -> 0 .. MaxGen] BY DEF Init, Gens, None
  <2>2. lines \in [Files -> [Gens -> 0 .. MaxLines]] BY DEF Init
  <2>3. mtimeOld \in [Files -> BOOLEAN] /\ dataOld \in [Files -> BOOLEAN] BY DEF Init
  <2>4. slot \in [Files -> SlotType] BY DEF Init, SlotType
  <2>5. tl \in [Tails -> TailType] /\ \A t \in Tails : tl[t] = NoTail BY EmptyTail DEF Init
  <2>6. mu = "free" /\ poll = "top" /\ todo = {} /\ matches = {} /\ stat = NoLine /\ firstRun = TRUE BY DEF Init
  <2>7. serialFeed = None /\ closer = "no" /\ lateOpen = FALSE /\ shipped = {} /\ again = {} BY DEF Init
  <2>8. QED BY <2>1, <2>2, <2>3, <2>4, <2>5, <2>6, <2>7 DEF TypeOK, SlotType, TailType, None
<1>2. PollInv BY DEF Init, PollInv, Listed
<1>n. \A t \in Tails : tl[t] = NoTail /\ tl[t].pc = "none" /\ ~tl[t].open BY DEF Init, NoTail
<1>3. LiveTailIsListed BY <1>n DEF LiveTailIsListed
<1>4. FeedInv BY <1>n DEF FeedInv
<1>5. ClosedInv BY DEF ClosedInv, Init
<1>6. StayInv
  <2>1. \A f \in Files : disk[f] = used[f] /\ used[f] \in {0, 1} BY DEF Init, None
  <2>2. \A f \in Files : ~Listed(f) BY DEF Init, Listed
  <2>3. stat = NoLine /\ shipped = {} /\ again = {} BY DEF Init
  <2>4. QED BY <2>1, <2>2, <2>3, <1>n DEF StayInv, FilesStay, TailsStay, ShippedBehind
<1>7. QED BY <1>1, <1>2, <1>3, <1>4, <1>5, <1>6 DEF FileInv

-----------------------------------------------------------------------------
\* Type correctness in four parts.
DiskTypes ==
  /\ conf \in Confs
  /\ disk \in [Files -> Gens \union {None}]
  /\ used \in [Files -> 0 .. MaxGen]
  /\ lines \in [Files -> [Gens -> 0 .. MaxLines]]
  /\ mtimeOld \in [Files -> BOOLEAN] /\ dataOld \in [Files -> BOOLEAN]
PollTypes ==
  /\ mu \in {"free", "poll"}
  /\ poll \in {"top", "lock", "check", "reopen", "new", "open", "sleep", "exited"}
  /\ mu = "poll" <=> poll \in {"check", "reopen", "new", "open"}
  /\ todo \subseteq Files /\ matches \subseteq Files /\ firstRun \in BOOLEAN
  /\ stat \in (Files \X Gens) \union {NoLine}
TailTypes ==
  /\ tl \in [Tails -> TailType]
  /\ \A t \in Tails : tl[t] # NoTail =>
       /\ tl[t].file \in Files /\ tl[t].gen \in Gens /\ tl[t].pos <= lines[tl[t].file][tl[t].gen]
       /\ tl[t].pc = "ship" => tl[t].line # NoLine
RestTypes ==
  /\ slot \in [Files -> SlotType]
  /\ serialFeed \in Tails \union {None}
  /\ closer \in {"no", "cancelled", "wg", "closed"}
  /\ lateOpen \in BOOLEAN /\ again \subseteq shipped /\ shipped \subseteq Files \X Gens \X (1 .. MaxLines)

LEMMA TypeParts == TypeOK <=> DiskTypes /\ PollTypes /\ TailTypes /\ RestTypes
BY DEF TypeOK, DiskTypes, PollTypes, TailTypes, RestTypes, TailType, SlotType

LEMMA TypePartsNext == TypeOK' <=> DiskTypes' /\ PollTypes' /\ TailTypes' /\ RestTypes'
BY DEF TypeOK, DiskTypes, PollTypes, TailTypes, RestTypes, TailType, SlotType

\* The file system and the clock.
LEMMA EnvironmentKeeps == FileInv /\ Environment => FileInv'
<1> SUFFICES ASSUME FileInv, Environment PROVE FileInv' OBVIOUS
<1>t. DiskTypes /\ PollTypes /\ TailTypes /\ RestTypes /\ conf \in Confs BY TypeParts DEF FileInv, DiskTypes
<1> USE FileConstants, <1>t
<1>u. /\ UNCHANGED <<mu, poll, todo, matches, stat, firstRun, slot, tl, serialFeed, closer, shipped, again, lateOpen, conf>>
  BY DEF Environment, TimePasses, WriteLine, Unlink, Create, envUnchanged, pollVars, histVars, diskVars
<1>d. DiskTypes' /\ \A f \in Files : \A g \in Gens : lines[f][g] <= lines'[f][g]
  <2>1. ASSUME NEW f \in Files, WriteLine(f) PROVE DiskTypes' /\ \A h \in Files : \A g \in Gens : lines[h][g] <= lines'[h][g]
    <3>1. disk[f] \in Gens /\ lines[f][disk[f]] \in 0 .. MaxLines /\ lines[f][disk[f]] < MaxLines
      BY <2>1 DEF WriteLine, DiskTypes, None
    <3>2. lines' = [lines EXCEPT ![f][disk[f]] = @ + 1] BY <2>1 DEF WriteLine
    <3>3. lines' \in [Files -> [Gens -> 0 .. MaxLines]] BY <3>1, <3>2 DEF DiskTypes
    <3>4. \A h \in Files : \A g \in Gens : lines[h][g] <= lines'[h][g] BY <3>1, <3>2 DEF DiskTypes
    <3>5. UNCHANGED <<conf, disk, used, dataOld>> /\ mtimeOld' \in [Files -> BOOLEAN] BY <2>1 DEF WriteLine, DiskTypes
    <3>6. QED BY <3>3, <3>4, <3>5 DEF DiskTypes
  <2>2. ASSUME NEW f \in Files, Unlink(f) PROVE DiskTypes' /\ lines' = lines
    BY <2>2 DEF Unlink, DiskTypes
  <2>3. ASSUME NEW f \in Files, Create(f) PROVE DiskTypes' /\ lines' = lines
    <3>1. used[f] \in 0 .. MaxGen /\ used[f] + 1 \in Gens BY <2>3 DEF Create, DiskTypes, Gens
    <3>2. disk' \in [Files -> Gens \union {None}] /\ used' \in [Files -> 0 .. MaxGen] /\ mtimeOld' \in [Files -> BOOLEAN]
      BY <2>3, <3>1 DEF Create, DiskTypes, Gens
    <3>3. QED BY <2>3, <3>2 DEF Create, DiskTypes
  <2>4. CASE TimePasses BY <2>4 DEF TimePasses, DiskTypes, diskVars
  <2>5. \A f \in Files : \A g \in Gens : lines[f][g] <= lines[f][g] BY DEF DiskTypes
  <2>6. CASE lines' = lines /\ DiskTypes' BY <2>5, <2>6
  <2>7. QED BY <2>1, <2>2, <2>3, <2>4, <2>6 DEF Environment, TimePasses, diskVars
<1>1. TypeOK'
  <2>1. PollTypes' /\ RestTypes' BY <1>u DEF PollTypes, RestTypes
  <2>2. TailTypes'
    <3>1. tl' \in [Tails -> TailType] BY <1>u DEF TailTypes
    <3>2. ASSUME NEW t \in Tails, tl'[t] # NoTail
          PROVE /\ tl'[t].file \in Files /\ tl'[t].gen \in Gens /\ tl'[t].pos <= lines'[tl'[t].file][tl'[t].gen]
                /\ tl'[t].pc = "ship" => tl'[t].line # NoLine
      <4>1. /\ tl[t].file \in Files /\ tl[t].gen \in Gens /\ tl[t].pos <= lines[tl[t].file][tl[t].gen]
            /\ tl[t].pc = "ship" => tl[t].line # NoLine
        BY <1>u, <3>2 DEF TailTypes
      <4>2. tl[t].pos \in Nat BY DEF TailTypes, TailType
      <4>3. lines[tl[t].file][tl[t].gen] \in Nat /\ lines'[tl[t].file][tl[t].gen] \in Nat BY <4>1, <1>d DEF DiskTypes
      <4>4. tl[t].pos <= lines'[tl[t].file][tl[t].gen] BY <1>d, <4>1, <4>2, <4>3
      <4>5. QED BY <1>u, <4>1, <4>4
    <3>3. QED BY <3>1, <3>2 DEF TailTypes
  <2>3. QED BY <1>d, <2>1, <2>2, TypePartsNext
<1>2. PollInv' BY <1>u DEF FileInv, PollInv, Listed
<1>3. LiveTailIsListed' BY <1>u DEF FileInv, LiveTailIsListed
<1>4. FeedInv' BY <1>u DEF FileInv, FeedInv
<1>5. ClosedInv' BY <1>u DEF FileInv, ClosedInv
<1>6. StayInv'
  <2> SUFFICES ASSUME Undisturbed PROVE FilesStay' /\ TailsStay' /\ ShippedBehind' /\ again' = {}
    BY <1>u DEF StayInv, Undisturbed
  <2>1. FilesStay /\ TailsStay /\ ShippedBehind /\ again = {} BY DEF FileInv, StayInv
  <2>2. TailsStay' /\ ShippedBehind' /\ again' = {} BY <1>u, <2>1 DEF TailsStay, ShippedBehind, Listed
  <2>3. FilesStay'
    <3>1. ASSUME NEW f \in Files, Unlink(f) PROVE FALSE
      BY <3>1, <2>1 DEF Unlink, Undisturbed, FilesStay, None
    <3>2. ASSUME NEW f \in Files, Create(f) PROVE FilesStay'
      <4>1. disk[f] = 0 /\ used[f] = 0 BY <3>2, <2>1 DEF Create, FilesStay, None
      <4>2. disk' = [disk EXCEPT ![f] = 1] /\ used' = [used EXCEPT ![f] = 1] BY <3>2, <4>1 DEF Create
      <4>3. \A g \in Files : disk'[g] = used'[g] /\ used'[g] \in {0, 1} /\ (disk[g] = 1 => disk'[g] = 1)
        BY <4>2, <2>1 DEF FilesStay, DiskTypes
      <4>4. QED BY <1>u, <2>1, <4>3 DEF FilesStay, Listed
    <3>3. CASE UNCHANGED <<disk, used>> BY <1>u, <2>1, <3>3 DEF FilesStay, Listed
    <3>4. QED BY <3>1, <3>2, <3>3 DEF Environment, TimePasses, WriteLine, diskVars
  <2>4. QED BY <2>2, <2>3
<1>7. QED BY <1>1, <1>2, <1>3, <1>4, <1>5, <1>6 DEF FileInv

-----------------------------------------------------------------------------
\* What the actions below have in common: one tail or its handler moves.
OneTail(t, r) ==
  /\ t \in Tails /\ r \in TailType /\ tl' = [tl EXCEPT ![t] = r]
  /\ UNCHANGED <<conf, disk, used, lines, mtimeOld, mu, pollVars, slot, closer, lateOpen>>
  /\ dataOld' \in [Files -> BOOLEAN] /\ serialFeed' \in Tails \union {None}
  /\ r # NoTail => tl[t] # NoTail /\ r.file = tl[t].file /\ r.gen \in Gens /\ r.pos <= lines[r.file][r.gen]
  /\ r.open => tl[t].open
  /\ r.pc # "none" => tl[t].pc # "none"
  /\ r.pc = "ship" => r.line # NoLine

LEMMA OneTailMoves ==
  ASSUME FileInv, NEW t, NEW r, OneTail(t, r), again' \subseteq shipped', shipped' \subseteq Files \X Gens \X (1 .. MaxLines)
  PROVE TypeOK' /\ PollInv' /\ LiveTailIsListed' /\ ClosedInv'
<1>t. DiskTypes /\ PollTypes /\ TailTypes /\ RestTypes /\ conf \in Confs BY TypeParts DEF FileInv, DiskTypes
<1>u. /\ UNCHANGED <<conf, disk, used, lines, mtimeOld, mu, poll, todo, matches, stat, firstRun, slot, closer, lateOpen>>
      /\ t \in Tails /\ tl' \in [Tails -> TailType] /\ tl'[t] = r /\ \A u \in Tails : u # t => tl'[u] = tl[u]
  BY <1>t DEF OneTail, pollVars, TailTypes
<1>1. TypeOK'
  <2>1. DiskTypes' /\ PollTypes' /\ RestTypes' BY <1>t, <1>u DEF DiskTypes, PollTypes, RestTypes, OneTail
  <2>2. ASSUME NEW u \in Tails, tl'[u] # NoTail
        PROVE /\ tl'[u].file \in Files /\ tl'[u].gen \in Gens /\ tl'[u].pos <= lines'[tl'[u].file][tl'[u].gen]
              /\ tl'[u].pc = "ship" => tl'[u].line # NoLine
    <3>1. CASE u = t BY <1>t, <1>u, <2>2, <3>1 DEF OneTail, TailTypes
    <3>2. CASE u # t BY <1>t, <1>u, <2>2, <3>2 DEF TailTypes
    <3>3. QED BY <3>1, <3>2
  <2>3. TailTypes' BY <1>u, <2>2 DEF TailTypes
  <2>4. QED BY <2>1, <2>3, TypePartsNext
<1>2. PollInv' BY <1>u DEF FileInv, PollInv, Listed
<1>3. LiveTailIsListed'
  <2> SUFFICES ASSUME NEW u \in Tails, tl'[u].open PROVE slot[tl'[u].file].tail = u /\ ~slot[tl'[u].file].inactive
    BY <1>u DEF LiveTailIsListed
  <2>1. LiveTailIsListed BY DEF FileInv
  <2>2. CASE u = t
    <3>1. r # NoTail /\ r.file = tl[t].file /\ tl[t].open BY <1>u, <2>2 DEF OneTail, NoTail
    <3>2. QED BY <1>u, <2>1, <2>2, <3>1 DEF LiveTailIsListed
  <2>3. CASE u # t BY <1>u, <2>1, <2>3 DEF LiveTailIsListed
  <2>4. QED BY <2>2, <2>3
<1>4. ClosedInv' BY <1>u DEF FileInv, ClosedInv, OneTail
<1>5. QED BY <1>1, <1>2, <1>3, <1>4

\* A tail of an undisturbed file only goes ahead.
LEMMA OneTailStays ==
  ASSUME FileInv, NEW t, NEW r, OneTail(t, r), UNCHANGED <<shipped, again>>,
         Undisturbed /\ r # NoTail =>
           /\ r.gen = tl[t].gen /\ r.pos >= tl[t].pos
           /\ r.pc = "ship" => r.line = <<1, r.pos>> /\ (tl[t].pc = "ship" \/ r.pos > tl[t].pos)
  PROVE StayInv'
<1>t. TailTypes /\ RestTypes /\ conf \in Confs BY TypeParts DEF FileInv, DiskTypes
<1>u. /\ UNCHANGED <<conf, disk, used, stat, slot, shipped, again>>
      /\ t \in Tails /\ r \in TailType /\ tl'[t] = r /\ \A u \in Tails : u # t => tl'[u] = tl[u]
  BY <1>t DEF OneTail, pollVars, TailTypes
<1> SUFFICES ASSUME Undisturbed PROVE FilesStay' /\ TailsStay' /\ ShippedBehind' /\ again' = {}
  BY <1>u DEF StayInv, Undisturbed
<1>i. FilesStay /\ TailsStay /\ ShippedBehind /\ again = {} BY DEF FileInv, StayInv
<1>1. FilesStay' /\ again' = {} BY <1>u, <1>i DEF FilesStay, Listed
<1>n. r # NoTail => tl[t] # NoTail /\ r.file = tl[t].file BY DEF OneTail
<1>2. TailsStay'
  <2>1. TailsStay BY <1>i
  <2>2. QED BY <1>u, <1>n, <2>1 DEF TailsStay
<1>3. ShippedBehind'
  <2> SUFFICES ASSUME NEW x \in shipped
      PROVE /\ Listed(x[1])
            /\ \A u \in Tails : tl'[u] # NoTail /\ tl'[u].file = x[1] =>
                 x[3] <= tl'[u].pos /\ (tl'[u].pc = "ship" => x[3] < tl'[u].pos)
    BY <1>u DEF ShippedBehind, Listed
  <2>1. Listed(x[1]) /\ x[3] \in Nat BY <1>i, <1>t, FileConstants DEF ShippedBehind, RestTypes
  <2>2. ASSUME NEW u \in Tails, tl'[u] # NoTail, tl'[u].file = x[1]
        PROVE x[3] <= tl'[u].pos /\ (tl'[u].pc = "ship" => x[3] < tl'[u].pos)
    <3>1. CASE u # t
      <4>1. tl'[u] = tl[u] BY <1>u, <3>1
      <4>2. QED BY <1>i, <2>2, <4>1 DEF ShippedBehind
    <3>2. CASE u = t
      <4>1. tl[t] # NoTail /\ tl[t].file = x[1] BY <1>u, <1>n, <2>2, <3>2
      <4>2. x[3] <= tl[t].pos /\ (tl[t].pc = "ship" => x[3] < tl[t].pos) BY <1>i, <1>u, <4>1 DEF ShippedBehind
      <4>3. tl[t].pos \in Nat /\ r.pos \in Nat BY <1>t, <1>u DEF TailTypes, TailType
      <4>4. QED BY <1>u, <2>1, <2>2, <3>2, <4>2, <4>3
    <3>3. QED BY <3>1, <3>2
  <2>3. QED BY <2>1, <2>2
<1>4. QED BY <1>1, <1>2, <1>3

-----------------------------------------------------------------------------
\* A tail or a handler leaves the rest of the inductive invariant as it is.
LEMMA TailKeeps ==
  ASSUME FileInv, NEW t, NEW r, OneTail(t, r), UNCHANGED <<shipped, again>>,
         Undisturbed /\ r # NoTail =>
           /\ r.gen = tl[t].gen /\ r.pos >= tl[t].pos
           /\ r.pc = "ship" => r.line = <<1, r.pos>> /\ (tl[t].pc = "ship" \/ r.pos > tl[t].pos),
         FeedInv'
  PROVE FileInv'
<1>1. again' \subseteq shipped' /\ shipped' \subseteq Files \X Gens \X (1 .. MaxLines) BY TypeParts DEF FileInv, RestTypes
<1>2. QED BY <1>1, OneTailMoves, OneTailStays DEF FileInv

\* The semaphore, when the tail of t moves and the semaphore stays.
LEMMA FeedKeeps ==
  ASSUME FileInv, NEW t \in Tails, NEW r, tl' = [tl EXCEPT ![t] = r], UNCHANGED <<conf, serialFeed>>,
         conf.SerializeFiles /\ r.pc \in {"loop", "ship"} => tl[t].pc \in {"loop", "ship"}
  PROVE FeedInv'
<1>1. tl \in [Tails -> TailType] BY TypeParts DEF FileInv, TailTypes
<1>2. QED BY <1>1 DEF FileInv, FeedInv

\* What is known of a tail that is open, or whose handler runs.
LEMMA TailFacts ==
  ASSUME FileInv, NEW t \in Tails, tl[t].open \/ tl[t].pc # "none"
  PROVE /\ tl[t] # NoTail /\ tl[t] \in TailType /\ conf \in Confs
        /\ tl[t].file \in Files /\ tl[t].gen \in Gens /\ tl[t].pos \in 0 .. MaxLines
        /\ lines[tl[t].file][tl[t].gen] \in 0 .. MaxLines /\ tl[t].pos <= lines[tl[t].file][tl[t].gen]
        /\ dataOld \in [Files -> BOOLEAN] /\ serialFeed \in Tails \union {None} /\ tl \in [Tails -> TailType]
        /\ tl[t].pc = "ship" => tl[t].line # NoLine
        /\ Undisturbed => tl[t].gen = 1 /\ (tl[t].pc = "ship" => tl[t].line = <<1, tl[t].pos>>)
<1>1. DiskTypes /\ TailTypes /\ RestTypes BY TypeParts DEF FileInv
<1>2. tl[t] # NoTail BY DEF NoTail
<1>3. /\ tl[t] \in TailType /\ tl[t].file \in Files /\ tl[t].gen \in Gens /\ tl[t].pos <= lines[tl[t].file][tl[t].gen]
      /\ tl[t].pc = "ship" => tl[t].line # NoLine
  BY <1>1, <1>2 DEF TailTypes
<1>4. lines[tl[t].file][tl[t].gen] \in 0 .. MaxLines BY <1>1, <1>3 DEF DiskTypes
<1>5. Undisturbed => TailsStay BY DEF FileInv, StayInv
<1>6. QED BY <1>1, <1>2, <1>3, <1>4, <1>5 DEF TailsStay, DiskTypes, RestTypes, TailTypes, TailType

\* The tail library.
LEMMA ReopensKeeps == ASSUME FileInv, NEW t \in Tails, TailReopens(t) PROVE FileInv'
<1> DEFINE r == [tl[t] EXCEPT !.gen = disk[tl[t].file], !.pos = 0]
<1>f. tl[t].open BY DEF TailReopens
<1>t. DiskTypes BY TypeParts DEF FileInv
<1>1. disk[tl[t].file] \in Gens /\ r \in TailType /\ tl' = [tl EXCEPT ![t] = r]
  <2>1. disk[tl[t].file] \in Gens BY <1>f, <1>t, TailFacts DEF TailReopens, DiskTypes
  <2>2. r \in TailType
    <3>1. tl[t] \in TailType /\ conf \in Confs BY <1>f, TailFacts
    <3>2. 0 \in 0 .. MaxLines BY <3>1, FileConstants
    <3>3. QED BY <2>1, <3>1, <3>2 DEF TailType
  <2>3. QED BY <1>f, <2>1, <2>2, TailFacts DEF TailReopens
<1>2. r.open = tl[t].open /\ r.pc = tl[t].pc /\ r.file = tl[t].file /\ r.gen = disk[tl[t].file] /\ r.pos = 0 /\ r.line = tl[t].line
  BY <1>f, TailFacts DEF TailType
<1>3. OneTail(t, r)
  <2>1. lines[r.file][r.gen] \in Nat BY <1>f, <1>t, <1>1, <1>2, TailFacts DEF DiskTypes
  <2>2. /\ UNCHANGED <<conf, disk, used, lines, mtimeOld, mu, pollVars, slot, closer, lateOpen>>
        /\ dataOld' = dataOld /\ serialFeed' = serialFeed
    BY DEF TailReopens, diskVars, histVars
  <2>3. /\ tl[t] # NoTail /\ dataOld' \in [Files -> BOOLEAN] /\ serialFeed' \in Tails \union {None}
        /\ tl[t].pc = "ship" => tl[t].line # NoLine
    BY <1>f, <2>2, TailFacts
  <2>4. QED BY <1>f, <1>1, <1>2, <2>1, <2>2, <2>3 DEF OneTail
<1>4. Undisturbed => FALSE
  <2>1. Undisturbed => FilesStay BY DEF FileInv, StayInv
  <2>2. QED BY <1>f, <2>1, TailFacts DEF FilesStay, TailReopens, None
<1>5. FeedInv' BY <1>1, <1>2, FeedKeeps DEF TailReopens, diskVars
<1>6. QED BY <1>3, <1>4, <1>5, TailKeeps DEF TailReopens, histVars

\* The record of a tail that is stopped, and of one whose handler returned.
StoppedTail(t) == IF tl[t].pc = "none" THEN NoTail ELSE [tl[t] EXCEPT !.open = FALSE]
ReturnedTail(t) == IF tl[t].open THEN [tl[t] EXCEPT !.pc = "none", !.line = NoLine] ELSE NoTail

LEMMA StoppedType ==
  ASSUME FileInv, NEW t \in Tails
  PROVE /\ Stopped(t) = [tl EXCEPT ![t] = StoppedTail(t)] /\ StoppedTail(t) \in TailType /\ ~StoppedTail(t).open
        /\ StoppedTail(t) # NoTail =>
             /\ tl[t] # NoTail /\ tl[t].pc # "none" /\ StoppedTail(t).pc = tl[t].pc /\ StoppedTail(t).file = tl[t].file
             /\ StoppedTail(t).gen = tl[t].gen /\ StoppedTail(t).pos = tl[t].pos /\ StoppedTail(t).line = tl[t].line
        /\ StoppedTail(t).pc \in {"none", tl[t].pc}
<1>1. tl[t] \in TailType /\ tl \in [Tails -> TailType] /\ conf \in Confs BY TypeParts DEF FileInv, TailTypes, DiskTypes
<1>2. NoTail \in TailType /\ ~NoTail.open /\ NoTail.pc = "none" BY <1>1, EmptyTail DEF NoTail
<1>3. Stopped(t) = [tl EXCEPT ![t] = StoppedTail(t)] BY <1>1 DEF Stopped, StoppedTail
<1>4. [tl[t] EXCEPT !.open = FALSE] \in TailType BY <1>1 DEF TailType
<1>5. /\ [tl[t] EXCEPT !.open = FALSE].open = FALSE /\ [tl[t] EXCEPT !.open = FALSE].pc = tl[t].pc
      /\ [tl[t] EXCEPT !.open = FALSE].file = tl[t].file /\ [tl[t] EXCEPT !.open = FALSE].gen = tl[t].gen
      /\ [tl[t] EXCEPT !.open = FALSE].pos = tl[t].pos /\ [tl[t] EXCEPT !.open = FALSE].line = tl[t].line
  BY <1>1 DEF TailType
<1>6. CASE tl[t].pc = "none" BY <1>2, <1>3, <1>6 DEF StoppedTail
<1>7. CASE tl[t].pc # "none" BY <1>2, <1>3, <1>4, <1>5, <1>7 DEF StoppedTail
<1>8. QED BY <1>6, <1>7

LEMMA ReturnedType ==
  ASSUME FileInv, NEW t \in Tails
  PROVE /\ Returned(t) = [tl EXCEPT ![t] = ReturnedTail(t)] /\ ReturnedTail(t) \in TailType /\ ReturnedTail(t).pc = "none"
        /\ ReturnedTail(t) # NoTail => tl[t].open
        /\ ReturnedTail(t).open => tl[t].open
        /\ tl[t].open => ReturnedTail(t).file = tl[t].file /\ ReturnedTail(t).gen = tl[t].gen /\ ReturnedTail(t).pos = tl[t].pos
<1>1. tl[t] \in TailType /\ tl \in [Tails -> TailType] /\ conf \in Confs BY TypeParts DEF FileInv, TailTypes, DiskTypes
<1>2. NoTail \in TailType /\ ~NoTail.open /\ NoTail.pc = "none" BY <1>1, EmptyTail DEF NoTail
<1>3. Returned(t) = [tl EXCEPT ![t] = ReturnedTail(t)] BY <1>1 DEF Returned, ReturnedTail
<1> DEFINE r == [tl[t] EXCEPT !.pc = "none", !.line = NoLine]
<1>4. r \in TailType /\ r.pc = "none" /\ r.open = tl[t].open /\ r.file = tl[t].file /\ r.gen = tl[t].gen /\ r.pos = tl[t].pos
  BY <1>1 DEF TailType
<1>5. QED BY <1>2, <1>3, <1>4 DEF ReturnedTail

\* A tail that does not follow ends.
LEMMA EndsKeeps == ASSUME FileInv, NEW t \in Tails, TailEnds(t) PROVE FileInv'
<1> DEFINE r == StoppedTail(t)
<1>1. tl[t].open /\ tl' = [tl EXCEPT ![t] = r] BY StoppedType DEF TailEnds
<1>2. /\ UNCHANGED <<conf, disk, used, lines, mtimeOld, mu, pollVars, slot, closer, lateOpen, shipped, again>>
      /\ dataOld' = dataOld /\ serialFeed' = serialFeed
  BY DEF TailEnds, diskVars, histVars
<1>3. dataOld' \in [Files -> BOOLEAN] /\ serialFeed' \in Tails \union {None} BY <1>1, <1>2, TailFacts
<1>4. r # NoTail => tl[t] # NoTail /\ r.file = tl[t].file /\ r.gen \in Gens /\ r.pos <= lines[r.file][r.gen]
  BY <1>1, StoppedType, TailFacts
<1>p. (r.pc # "none" => tl[t].pc # "none") /\ (r.pc = "ship" => r.line # NoLine)
  <2>1. r.pc = "ship" => r # NoTail BY DEF NoTail
  <2>2. QED BY <2>1, <1>1, StoppedType, TailFacts
<1>5. OneTail(t, r) BY <1>1, <1>2, <1>3, <1>4, <1>p, StoppedType DEF OneTail
<1>6. Undisturbed /\ r # NoTail =>
        /\ r.gen = tl[t].gen /\ r.pos >= tl[t].pos
        /\ r.pc = "ship" => r.line = <<1, r.pos>> /\ (tl[t].pc = "ship" \/ r.pos > tl[t].pos)
  <2>1. tl[t].pos \in Nat BY <1>1, TailFacts
  <2>2. QED BY <1>1, <2>1, StoppedType, TailFacts
<1>7. r.pc \in {"loop", "ship"} => tl[t].pc \in {"loop", "ship"} BY StoppedType
<1>8. FeedInv' BY <1>1, <1>2, <1>7, FeedKeeps
<1>9. QED BY <1>2, <1>5, <1>6, <1>8, TailKeeps

\* A handler that returns: because its file is not listed any more, because Close
\* cancelled it, because the tail has ended or because of an error.
Returns(t) ==
  /\ tl' = Returned(t) /\ tl[t].pc # "none"
  /\ serialFeed' \in {serialFeed, None} /\ (serialFeed' # serialFeed => serialFeed = t)
  /\ UNCHANGED <<diskVars, mtimeOld, dataOld, mu, pollVars, slot, closer, histVars>>

LEMMA ReturnsKeeps == ASSUME FileInv, NEW t \in Tails, Returns(t) PROVE FileInv'
<1> DEFINE r == ReturnedTail(t)
<1>1. tl[t].pc # "none" /\ tl' = [tl EXCEPT ![t] = r] BY ReturnedType DEF Returns
<1>2. UNCHANGED <<conf, disk, used, lines, mtimeOld, dataOld, mu, pollVars, slot, closer, lateOpen, shipped, again>>
  BY DEF Returns, diskVars, histVars
<1>3. dataOld' \in [Files -> BOOLEAN] /\ serialFeed' \in Tails \union {None} BY <1>1, <1>2, TailFacts DEF Returns
<1>4. r # NoTail => tl[t] # NoTail /\ r.file = tl[t].file /\ r.gen \in Gens /\ r.pos <= lines[r.file][r.gen]
  BY <1>1, ReturnedType, TailFacts
<1>5. OneTail(t, r) BY <1>1, <1>2, <1>3, <1>4, ReturnedType DEF OneTail
<1>6. Undisturbed /\ r # NoTail =>
        /\ r.gen = tl[t].gen /\ r.pos >= tl[t].pos
        /\ r.pc = "ship" => r.line = <<1, r.pos>> /\ (tl[t].pc = "ship" \/ r.pos > tl[t].pos)
  <2>1. tl[t].pos \in Nat BY <1>1, TailFacts
  <2>2. QED BY <1>1, <2>1, ReturnedType
<1>7. FeedInv'
  <2>1. tl \in [Tails -> TailType] /\ FeedInv BY <1>1, TailFacts DEF FileInv
  <2>2. \A u \in Tails : u # t => tl'[u] = tl[u] BY <1>1, <2>1
  <2>3. tl'[t].pc = "none" BY <1>1, <2>1, ReturnedType
  <2>4. QED BY <1>2, <2>1, <2>2, <2>3 DEF FeedInv, Returns
<1>8. QED BY <1>2, <1>5, <1>6, <1>7, TailKeeps

\* A handler that starts, and one that gets the semaphore.
LEMMA StartKeeps == ASSUME FileInv, NEW t \in Tails, InputStart(t) PROVE FileInv'
<1>1. CASE ~Listed(tl[t].file) BY <1>1, ReturnsKeeps DEF InputStart, Returns
<1>2. CASE Listed(tl[t].file)
  <2> DEFINE r == [tl[t] EXCEPT !.pc = IF conf.SerializeFiles THEN "acquire" ELSE "loop"]
  <2>1. tl[t].pc = "start" /\ tl' = [tl EXCEPT ![t] = r] BY <1>2 DEF InputStart
  <2>2. UNCHANGED <<conf, disk, used, lines, mtimeOld, dataOld, mu, pollVars, slot, serialFeed, closer, lateOpen, shipped, again>>
    BY DEF InputStart, diskVars, histVars
  <2>3. /\ r \in TailType /\ r.open = tl[t].open /\ r.file = tl[t].file /\ r.gen = tl[t].gen /\ r.pos = tl[t].pos
        /\ r.pc = IF conf.SerializeFiles THEN "acquire" ELSE "loop"
    BY <2>1, TailFacts DEF TailType
  <2>4. OneTail(t, r) BY <2>1, <2>2, <2>3, TailFacts DEF OneTail
  <2> HIDE DEF r
  <2>5. tl[t].pos \in Nat /\ r.pc # "ship" BY <2>1, <2>3, TailFacts
  <2>6. FeedInv' BY <2>1, <2>2, <2>3, FeedKeeps
  <2>7. QED BY <2>2, <2>3, <2>4, <2>5, <2>6, TailKeeps
<1>3. QED BY <1>1, <1>2

LEMMA AcquireKeeps == ASSUME FileInv, NEW t \in Tails, InputAcquire(t) PROVE FileInv'
<1>1. CASE tl' = Returned(t) /\ UNCHANGED serialFeed BY <1>1, ReturnsKeeps DEF InputAcquire, Returns
<1>2. CASE SemaphoreFree /\ serialFeed' = t /\ tl' = [tl EXCEPT ![t].pc = "loop"]
  <2> DEFINE r == [tl[t] EXCEPT !.pc = "loop"]
  <2>1. tl[t].pc = "acquire" /\ tl' = [tl EXCEPT ![t] = r] BY <1>2 DEF InputAcquire
  <2>2. UNCHANGED <<conf, disk, used, lines, mtimeOld, dataOld, mu, pollVars, slot, closer, lateOpen, shipped, again>>
    BY DEF InputAcquire, diskVars, histVars
  <2>3. /\ r \in TailType /\ r.open = tl[t].open /\ r.file = tl[t].file /\ r.gen = tl[t].gen /\ r.pos = tl[t].pos
        /\ r.pc = "loop"
    BY <2>1, TailFacts DEF TailType
  <2>4. OneTail(t, r) BY <1>2, <2>1, <2>2, <2>3, TailFacts DEF OneTail
  <2> HIDE DEF r
  <2>5. tl[t].pos \in Nat BY <2>1, TailFacts
  <2>6. FeedInv'
    <3>1. FeedInv /\ tl \in [Tails -> TailType] BY <2>1, TailFacts DEF FileInv
    <3>2. \A u \in Tails : u # t => tl'[u] = tl[u] BY <2>1, <3>1
    <3>3. \A u \in Tails : u # None BY TailAssumption DEF None
    <3>4. QED BY <1>2, <2>2, <3>1, <3>2, <3>3 DEF FeedInv, SemaphoreFree
  <2>7. QED BY <2>2, <2>3, <2>4, <2>5, <2>6, TailKeeps
<1>3. QED BY <1>1, <1>2 DEF InputAcquire

LEMMA ReceiveKeeps == ASSUME FileInv, NEW t \in Tails, InputReceive(t) PROVE FileInv'
<1> DEFINE r == [tl[t] EXCEPT !.pc = "ship", !.pos = tl[t].pos + 1, !.line = <<tl[t].gen, tl[t].pos + 1>>]
<1>1. tl[t].pc = "loop" /\ tl' = [tl EXCEPT ![t] = r] /\ tl[t].pos < lines[tl[t].file][tl[t].gen] BY DEF InputReceive
<1>2. UNCHANGED <<conf, disk, used, lines, mtimeOld, mu, pollVars, slot, serialFeed, closer, lateOpen, shipped, again>>
  BY DEF InputReceive, diskVars, histVars
<1>3. /\ tl[t] \in TailType /\ tl[t].pos \in 0 .. MaxLines /\ tl[t].gen \in Gens /\ MaxLines \in Nat
      /\ lines[tl[t].file][tl[t].gen] \in 0 .. MaxLines
  BY <1>1, TailFacts, FileConstants
<1>4. tl[t].pos + 1 \in 1 .. MaxLines BY <1>1, <1>3
<1>5. /\ r \in TailType /\ r.open = tl[t].open /\ r.file = tl[t].file /\ r.gen = tl[t].gen /\ r.pos = tl[t].pos + 1
      /\ r.pc = "ship" /\ r.line = <<tl[t].gen, tl[t].pos + 1>>
  <2>1. <<tl[t].gen, tl[t].pos + 1>> \in (Gens \X (1 .. MaxLines)) \union {NoLine} BY <1>3, <1>4
  <2>2. tl[t].pos + 1 \in 0 .. MaxLines BY <1>3, <1>4
  <2>3. QED BY <1>3, <2>1, <2>2 DEF TailType
<1> HIDE DEF r
<1>6. dataOld' \in [Files -> BOOLEAN] BY <1>1, TailFacts DEF InputReceive
<1>7. r.pos <= lines[r.file][r.gen] /\ r.line # NoLine BY <1>1, <1>3, <1>5 DEF Gens, NoLine, None
<1>8. OneTail(t, r) BY <1>1, <1>2, <1>5, <1>6, <1>7, TailFacts DEF OneTail
<1>9. r.pos > tl[t].pos /\ r.pos >= tl[t].pos BY <1>3, <1>5
<1>10. Undisturbed => tl[t].gen = 1 BY <1>1, TailFacts
<1>11. FeedInv' BY <1>1, <1>2, FeedKeeps
<1>12. QED BY <1>2, <1>5, <1>8, <1>9, <1>10, <1>11, TailKeeps

\* The line that is shipped lies ahead of everything that was shipped of its file.
LEMMA ShipKeeps == ASSUME FileInv, NEW t \in Tails, InputShip(t) PROVE FileInv'
<1> DEFINE r == [tl[t] EXCEPT !.pc = "loop", !.line = NoLine]
           l == <<tl[t].file, tl[t].line[1], tl[t].line[2]>>
<1>1. tl[t].pc = "ship" /\ tl' = [tl EXCEPT ![t] = r] BY DEF InputShip
<1>2. UNCHANGED <<conf, disk, used, lines, mtimeOld, dataOld, mu, pollVars, slot, serialFeed, closer, lateOpen>>
  BY DEF InputShip, diskVars
<1>3. /\ r \in TailType /\ r.open = tl[t].open /\ r.file = tl[t].file /\ r.gen = tl[t].gen /\ r.pos = tl[t].pos
      /\ r.pc = "loop"
  BY <1>1, TailFacts DEF TailType
<1>4. shipped' = shipped \union {l} /\ again' = IF l \in shipped THEN again \union {l} ELSE again BY DEF InputShip
<1> HIDE DEF r
<1>5. OneTail(t, r) BY <1>1, <1>2, <1>3, TailFacts DEF OneTail
<1>6. TypeOK' /\ PollInv' /\ LiveTailIsListed' /\ ClosedInv'
  <2>1. tl[t].line \in Gens \X (1 .. MaxLines) BY <1>1, TailFacts DEF TailType
  <2>2. l \in Files \X Gens \X (1 .. MaxLines) BY <1>1, <2>1, TailFacts
  <2>3. again \subseteq shipped /\ shipped \subseteq Files \X Gens \X (1 .. MaxLines)
    BY TypeParts DEF FileInv, RestTypes
  <2>4. again' \subseteq shipped' /\ shipped' \subseteq Files \X Gens \X (1 .. MaxLines) BY <1>4, <2>2, <2>3
  <2>5. QED BY <1>5, <2>4, OneTailMoves
<1>7. FeedInv' BY <1>1, <1>2, FeedKeeps
<1>8. StayInv'
  <2>u. UNCHANGED <<conf, disk, used, stat, slot>> BY <1>2 DEF pollVars
  <2> SUFFICES ASSUME Undisturbed PROVE FilesStay' /\ TailsStay' /\ ShippedBehind' /\ again' = {}
    BY <2>u DEF StayInv, Undisturbed
  <2>i. FilesStay /\ TailsStay /\ ShippedBehind /\ again = {} BY DEF FileInv, StayInv
  <2>t. /\ tl \in [Tails -> TailType] /\ tl[t] # NoTail /\ tl[t].gen = 1 /\ tl[t].line = <<1, tl[t].pos>> /\ tl[t].file \in Files
        /\ tl[t].pos \in Nat
    BY <1>1, TailFacts
  <2>r. tl'[t] = r /\ \A u \in Tails : u # t => tl'[u] = tl[u] BY <1>1, <2>t
  <2>l. l = <<tl[t].file, 1, tl[t].pos>> BY <2>t
  <2>1. FilesStay' BY <2>u, <2>i DEF FilesStay, Listed
  <2>2. TailsStay'
    <3>1. TailsStay BY <2>i
    <3>2. QED BY <1>3, <2>u, <2>t, <2>r, <3>1 DEF TailsStay
  <2>3. l \notin shipped
    <3> SUFFICES ASSUME l \in shipped PROVE FALSE OBVIOUS
    <3>1. l[3] < tl[t].pos BY <1>1, <2>i, <2>t, <2>l DEF ShippedBehind
    <3>2. QED BY <2>t, <2>l, <3>1
  <2>4. ShippedBehind'
    <3> SUFFICES ASSUME NEW x \in shipped \union {l}
        PROVE /\ Listed(x[1])
              /\ \A u \in Tails : tl'[u] # NoTail /\ tl'[u].file = x[1] =>
                   x[3] <= tl'[u].pos /\ (tl'[u].pc = "ship" => x[3] < tl'[u].pos)
      BY <1>4, <2>u DEF ShippedBehind, Listed
    <3>1. \A u \in Tails : tl[u] # NoTail => slot[tl[u].file].tail = u BY <2>i DEF TailsStay
    <3>2. CASE x = l
      <4>1. x[1] = tl[t].file /\ x[3] = tl[t].pos BY <2>l, <3>2
      <4>2. slot[tl[t].file].tail = t BY <2>t, <3>1
      <4>3. slot \in [Files -> SlotType] /\ conf \in Confs BY <1>1, TailFacts, TypeParts DEF FileInv, RestTypes
      <4>4. Listed(x[1]) BY <2>t, <4>1, <4>2, <4>3, EntryHasTail
      <4>5. ASSUME NEW u \in Tails, tl'[u] # NoTail, tl'[u].file = x[1] PROVE u = t
        <5>1. CASE u # t BY <2>r, <3>1, <4>1, <4>2, <4>5, <5>1
        <5>2. QED BY <5>1
      <4>6. x[3] <= r.pos /\ r.pc # "ship" BY <1>3, <2>t, <4>1
      <4>7. QED BY <2>r, <4>4, <4>5, <4>6
    <3>3. CASE x \in shipped
      <4>1. Listed(x[1]) BY <2>i, <3>3 DEF ShippedBehind
      <4>2. ASSUME NEW u \in Tails, tl'[u] # NoTail, tl'[u].file = x[1]
            PROVE x[3] <= tl'[u].pos /\ (tl'[u].pc = "ship" => x[3] < tl'[u].pos)
        <5>1. CASE u # t BY <2>i, <2>r, <3>3, <4>2, <5>1 DEF ShippedBehind
        <5>2. CASE u = t
          <6>1. tl[t].file = x[1] BY <1>3, <2>r, <4>2, <5>2
          <6>2. x[3] <= tl[t].pos BY <2>i, <2>t, <3>3, <6>1 DEF ShippedBehind
          <6>3. QED BY <1>3, <2>r, <5>2, <6>2
        <5>3. QED BY <5>1, <5>2
      <4>3. QED BY <4>1, <4>2
    <3>4. QED BY <3>2, <3>3
  <2>5. QED BY <1>4, <2>1, <2>2, <2>3, <2>4, <2>i
<1>9. QED BY <1>6, <1>7, <1>8 DEF FileInv

LEMMA EndKeeps == ASSUME FileInv, NEW t \in Tails, InputEnd(t) \/ InputFails(t) PROVE FileInv'
<1>1. tl' = Returned(t) /\ tl[t].pc # "none" /\ serialFeed' = IF serialFeed = t THEN None ELSE serialFeed
  BY DEF InputEnd, InputFails
<1>2. UNCHANGED <<diskVars, mtimeOld, dataOld, mu, pollVars, slot, closer, histVars>> BY DEF InputEnd, InputFails
<1>3. QED BY <1>1, <1>2, ReturnsKeeps DEF Returns

-----------------------------------------------------------------------------
\* Tails that are stopped: what they have and the place they are at stay.
LEMMA StopsTails ==
  ASSUME FileInv, UNCHANGED <<conf, lines>>,
         tl' = [t \in Tails |-> tl'[t]], \A t \in Tails : tl'[t] \in {tl[t], StoppedTail(t)}
  PROVE /\ TailTypes'
        /\ \A t \in Tails : tl'[t].open => tl'[t] = tl[t]
        /\ \A t \in Tails : tl'[t].pc \in {"none", tl[t].pc}
        /\ \A t \in Tails : tl'[t] # NoTail =>
             /\ tl[t] # NoTail /\ tl'[t].pc = tl[t].pc /\ tl'[t].file = tl[t].file /\ tl'[t].gen = tl[t].gen
             /\ tl'[t].pos = tl[t].pos /\ tl'[t].line = tl[t].line
<1>1. TailTypes /\ conf \in Confs BY TypeParts DEF FileInv, DiskTypes
<1>2. \A t \in Tails : tl[t] \in TailType /\ StoppedTail(t) \in TailType BY <1>1, StoppedType DEF TailTypes
<1>3. tl' \in [Tails -> TailType] BY <1>2
<1>4. \A t \in Tails : tl'[t].open => tl'[t] = tl[t] BY StoppedType
<1>5. \A t \in Tails : tl'[t].pc \in {"none", tl[t].pc} BY StoppedType
<1>6. \A t \in Tails : tl'[t] # NoTail =>
        /\ tl[t] # NoTail /\ tl'[t].pc = tl[t].pc /\ tl'[t].file = tl[t].file /\ tl'[t].gen = tl[t].gen
        /\ tl'[t].pos = tl[t].pos /\ tl'[t].line = tl[t].line
  BY StoppedType
<1>7. TailTypes' BY <1>1, <1>3, <1>6 DEF TailTypes
<1>8. QED BY <1>4, <1>5, <1>6, <1>7

\* Stopped tails keep the parts of the invariant that are about the lines.
LEMMA StopsStay ==
  ASSUME FileInv, UNCHANGED <<conf, disk, used, lines, slot, stat, shipped, again>>,
         tl' = [t \in Tails |-> tl'[t]], \A t \in Tails : tl'[t] \in {tl[t], StoppedTail(t)}
  PROVE StayInv'
<1> SUFFICES ASSUME Undisturbed PROVE FilesStay' /\ TailsStay' /\ ShippedBehind' /\ again' = {}
  BY DEF StayInv, Undisturbed
<1>i. FilesStay /\ TailsStay /\ ShippedBehind /\ again = {} BY DEF FileInv, StayInv
<1>s. \A t \in Tails : tl'[t] # NoTail =>
        /\ tl[t] # NoTail /\ tl'[t].pc = tl[t].pc /\ tl'[t].file = tl[t].file /\ tl'[t].gen = tl[t].gen
        /\ tl'[t].pos = tl[t].pos /\ tl'[t].line = tl[t].line
  BY StopsTails
<1>1. FilesStay' /\ again' = {} BY <1>i DEF FilesStay, Listed
<1>2. TailsStay'
  <2>1. TailsStay BY <1>i
  <2>2. QED BY <1>s, <2>1 DEF TailsStay
<1>3. ShippedBehind'
  <2>1. ShippedBehind BY <1>i
  <2>2. QED BY <1>s, <2>1 DEF ShippedBehind, Listed
<1>4. QED BY <1>1, <1>2, <1>3

\* Close.
LEMMA CloseKeeps == FileInv /\ (CloseCancel \/ CloseStopTails \/ CloseWait) => FileInv'
<1> SUFFICES ASSUME FileInv, CloseCancel \/ CloseStopTails \/ CloseWait PROVE FileInv' OBVIOUS
<1>t. DiskTypes /\ PollTypes /\ TailTypes /\ RestTypes /\ conf \in Confs BY TypeParts DEF FileInv, DiskTypes
<1>u. UNCHANGED <<conf, disk, used, lines, mtimeOld, dataOld, mu, poll, todo, matches, stat, firstRun, slot, serialFeed,
                  shipped, again, lateOpen>>
  BY DEF CloseCancel, CloseStopTails, CloseWait, closeUnchanged, diskVars, pollVars, histVars
<1>c. closer' \in {"cancelled", "wg", "closed"} BY DEF CloseCancel, CloseStopTails, CloseWait
<1>s. tl' = [t \in Tails |-> tl'[t]] /\ \A t \in Tails : tl'[t] \in {tl[t], StoppedTail(t)}
  <2>1. CASE UNCHANGED tl BY <1>t, <2>1 DEF TailTypes
  <2>2. CASE CloseStopTails
    <3>1. \A t \in Tails : Stopped(t)[t] = StoppedTail(t) BY <1>t, StoppedType DEF TailTypes
    <3>2. tl' = [t \in Tails |-> IF \E f \in Files : slot[f].tail = t THEN Stopped(t)[t] ELSE tl[t]]
      BY <2>2 DEF CloseStopTails
    <3>3. QED BY <3>1, <3>2
  <2>3. QED BY <2>1, <2>2 DEF CloseCancel, CloseWait
<1>1. TypeOK'
  <2>1. DiskTypes' /\ PollTypes' BY <1>t, <1>u DEF DiskTypes, PollTypes
  <2>2. RestTypes' BY <1>t, <1>u, <1>c DEF RestTypes
  <2>3. QED BY <1>s, <1>u, <2>1, <2>2, StopsTails, TypePartsNext
<1>2. PollInv' BY <1>u DEF FileInv, PollInv, Listed
<1>3. LiveTailIsListed'
  <2>1. \A t \in Tails : tl'[t].open => tl'[t] = tl[t] BY <1>s, <1>u, StopsTails
  <2>2. QED BY <1>u, <2>1 DEF FileInv, LiveTailIsListed
<1>p. \A t \in Tails : tl'[t].pc \in {"none", tl[t].pc} BY <1>s, <1>u, StopsTails
<1>4. FeedInv' BY <1>p, <1>u DEF FileInv, FeedInv
<1>5. ClosedInv' BY <1>u DEF ClosedInv, CloseCancel, CloseStopTails, CloseWait
<1>6. StayInv' BY <1>s, <1>u, StopsStay
<1>7. QED BY <1>1, <1>2, <1>3, <1>4, <1>5, <1>6 DEF FileInv

-----------------------------------------------------------------------------
\* Steps of the poll loop that change no entry and no tail.
LEMMA PollMoves ==
  ASSUME FileInv, poll # "exited", PollTypes', PollInv',
         UNCHANGED <<conf, disk, used, lines, mtimeOld, dataOld, slot, tl, serialFeed, closer, histVars>>,
         stat' \in {NoLine, stat} \/ \E f \in Files : stat'[2] = disk[f] /\ disk[f] # None
  PROVE FileInv'
<1>t. DiskTypes /\ PollTypes /\ TailTypes /\ RestTypes /\ conf \in Confs BY TypeParts DEF FileInv, DiskTypes
<1>u. UNCHANGED <<conf, disk, used, lines, mtimeOld, dataOld, slot, tl, serialFeed, closer, shipped, again, lateOpen>>
  BY DEF histVars
<1>1. TypeOK' BY <1>t, <1>u, TypePartsNext DEF DiskTypes, TailTypes, RestTypes
<1>2. LiveTailIsListed' BY <1>u DEF FileInv, LiveTailIsListed
<1>3. FeedInv' BY <1>u DEF FileInv, FeedInv
<1>4. ClosedInv' BY <1>u DEF FileInv, ClosedInv
<1>5. StayInv'
  <2> SUFFICES ASSUME Undisturbed PROVE FilesStay' /\ TailsStay' /\ ShippedBehind' /\ again' = {}
    BY <1>u DEF StayInv, Undisturbed
  <2>i. FilesStay /\ TailsStay /\ ShippedBehind /\ again = {} BY DEF FileInv, StayInv
  <2>1. TailsStay' /\ ShippedBehind' /\ again' = {} BY <1>u, <2>i DEF TailsStay, ShippedBehind, Listed
  <2>2. stat' # NoLine => stat'[2] = 1 BY <2>i DEF FilesStay, None
  <2>3. FilesStay' BY <1>u, <2>i, <2>2 DEF FilesStay, Listed
  <2>4. QED BY <2>1, <2>3, <2>i
<1>6. QED BY <1>1, <1>2, <1>3, <1>4, <1>5 DEF FileInv

\* The poll loop between its cycles, the end of its first half, and its unlock.
LEMMA PollTurns == FileInv /\ (PollTop \/ PollLock \/ PollChecked \/ PollUnlock \/ PollSleep) => FileInv'
<1> SUFFICES ASSUME FileInv, PollTop \/ PollLock \/ PollChecked \/ PollUnlock \/ PollSleep PROVE FileInv' OBVIOUS
<1>t. PollTypes BY TypeParts DEF FileInv
<1>u. /\ poll # "exited" /\ stat' = stat
      /\ UNCHANGED <<conf, disk, used, lines, mtimeOld, dataOld, slot, tl, serialFeed, closer, histVars>>
  BY DEF PollTop, PollLock, PollChecked, PollUnlock, PollSleep, diskVars
<1>1. PollTypes'
  <2>1. CASE PollTop BY <1>t, <2>1 DEF PollTop, PollTypes
  <2>2. CASE PollLock BY <1>t, <2>2 DEF PollLock, PollTypes
  <2>3. CASE PollChecked BY <1>t, <2>3 DEF PollChecked, PollTypes
  <2>4. CASE PollUnlock BY <1>t, <2>4 DEF PollUnlock, PollTypes
  <2>5. CASE PollSleep BY <1>t, <2>5 DEF PollSleep, PollTypes
  <2>6. QED BY <2>1, <2>2, <2>3, <2>4, <2>5
<1>2. poll' \notin {"reopen", "open"} BY DEF PollTop, PollLock, PollChecked, PollUnlock, PollSleep
<1>3. PollInv'
  <2>1. poll' \in {"check", "reopen"} => \A f \in todo' : Listed(f) BY DEF PollTop, PollLock, PollChecked, PollUnlock, PollSleep
  <2>2. slot' = slot BY <1>u
  <2>3. QED BY <1>2, <2>1, <2>2 DEF PollInv, Listed
<1>4. QED BY <1>u, <1>1, <1>3, PollMoves

\* A new match.
LEMMA PollNewKeeps == ASSUME FileInv, NEW f \in Files, PollNew(f) PROVE FileInv'
<1>t. DiskTypes /\ PollTypes /\ RestTypes /\ conf \in Confs BY TypeParts DEF FileInv, DiskTypes
<1>u. /\ poll = "new" /\ todo' = todo \ {f} /\ UNCHANGED <<mu, matches, firstRun>>
      /\ UNCHANGED <<conf, disk, used, lines, mtimeOld, dataOld, slot, tl, serialFeed, closer, histVars>>
  BY DEF PollNew, diskVars
<1>1. CASE Skipped(f)
  <2>1. UNCHANGED <<poll, stat>> BY <1>1 DEF PollNew
  <2>2. PollTypes' /\ PollInv' BY <1>t, <1>u, <2>1 DEF FileInv, PollTypes, PollInv, Listed
  <2>3. QED BY <1>u, <2>1, <2>2, PollMoves
<1>2. CASE ~Skipped(f)
  <2>1. poll' = "open" /\ stat' = <<f, disk[f]>> /\ disk[f] # None /\ slot[f] = NoEntry
    BY <1>2 DEF PollNew, Skipped, Listed
  <2>2. disk[f] \in Gens BY <1>t, <2>1 DEF DiskTypes
  <2>3. stat' \in Files \X Gens /\ stat'[1] = f /\ stat'[2] = disk[f] /\ stat' # NoLine BY <2>1, <2>2 DEF Gens, NoLine, None
  <2>4. PollTypes' BY <1>t, <1>u, <2>1, <2>3 DEF PollTypes
  <2>5. PollInv' BY <1>u, <2>1, <2>3 DEF FileInv, PollInv, Listed
  <2>6. QED BY <1>u, <2>1, <2>3, <2>4, <2>5, PollMoves
<1>3. QED BY <1>1, <1>2

\* A listed file is looked at again.
LEMMA PollCheckKeeps == ASSUME FileInv, NEW f \in Files, PollCheck(f) PROVE FileInv'
<1>t. DiskTypes /\ PollTypes /\ TailTypes /\ RestTypes /\ conf \in Confs BY TypeParts DEF FileInv, DiskTypes
<1>u. /\ poll = "check" /\ todo' = todo \ {f} /\ UNCHANGED <<mu, matches, firstRun>>
      /\ UNCHANGED <<conf, disk, used, lines, mtimeOld, dataOld, serialFeed, closer, shipped, again, lateOpen>>
  BY DEF PollCheck, diskVars, histVars
<1>1. CASE CheckNothing(f)
  <2>1. UNCHANGED <<slot, tl, poll, stat>> BY <1>1 DEF CheckNothing
  <2>2. PollTypes' /\ PollInv' BY <1>t, <1>u, <2>1 DEF FileInv, PollTypes, PollInv, Listed
  <2>3. QED BY <1>u, <2>1, <2>2, PollMoves DEF histVars
<1>2. CASE CheckReactivate(f)
  <2>1. poll' = "reopen" /\ stat' = <<f, disk[f]>> /\ UNCHANGED <<slot, tl>> /\ slot[f].inactive /\ disk[f] = slot[f].inode
    BY <1>2 DEF CheckReactivate, Reactivates, Gone
  <2>2. disk[f] \in Gens /\ disk[f] # None BY <1>t, <2>1, EntryHasTail DEF RestTypes, Gens, None
  <2>3. stat' \in Files \X Gens /\ stat'[1] = f /\ stat'[2] = disk[f] /\ stat' # NoLine BY <2>1, <2>2 DEF Gens, NoLine, None
  <2>4. PollTypes' BY <1>t, <1>u, <2>1, <2>3 DEF PollTypes
  <2>5. PollInv' BY <1>u, <2>1, <2>3 DEF FileInv, PollInv, Listed
  <2>6. QED BY <1>u, <2>1, <2>2, <2>3, <2>4, <2>5, PollMoves DEF histVars
<1>3. CASE CheckGone(f) \/ CheckInactive(f)
  <2>u. /\ UNCHANGED <<poll, stat>> /\ tl' = Stopped(slot[f].tail)
        /\ \E e \in SlotType : slot' = [slot EXCEPT ![f] = e] /\ (e = NoEntry \/ e.inactive)
    <3>1. CASE CheckGone(f) BY <3>1 DEF CheckGone, SlotType
    <3>2. CASE CheckInactive(f)
      <4>1. Listed(f)
        <5>1. f \in todo BY DEF PollCheck
        <5>2. QED BY <1>u, <5>1 DEF FileInv, PollInv
      <4>2. slot[f] \in [tail : Tails, inode : Gens, inactive : BOOLEAN] BY <1>t, <4>1 DEF RestTypes, SlotType, Listed
      <4>3. [slot[f] EXCEPT !.inactive = TRUE] \in SlotType BY <4>2 DEF SlotType
      <4>4. slot' = [slot EXCEPT ![f] = [slot[f] EXCEPT !.inactive = TRUE]] BY <3>2 DEF CheckInactive
      <4>5. [slot[f] EXCEPT !.inactive = TRUE].inactive BY <4>2
      <4>6. QED BY <3>2, <4>3, <4>4, <4>5 DEF CheckInactive
    <3>3. QED BY <1>3, <3>1, <3>2
  <2>s. /\ slot' \in [Files -> SlotType] /\ \A g \in Files : g # f => slot'[g] = slot[g]
    BY <1>t, <2>u DEF RestTypes
  <2>t. tl' = [t \in Tails |-> tl'[t]] /\ \A t \in Tails : tl'[t] \in {tl[t], StoppedTail(t)}
    <3>1. CASE slot[f].tail \in Tails
      <4>1. tl' = [tl EXCEPT ![slot[f].tail] = StoppedTail(slot[f].tail)] BY <2>u, <3>1, StoppedType
      <4>2. QED BY <1>t, <4>1 DEF TailTypes
    <3>2. CASE slot[f].tail \notin Tails
      <4>1. tl' = tl BY <1>t, <2>u, <3>2 DEF Stopped, TailTypes
      <4>2. QED BY <1>t, <4>1 DEF TailTypes
    <3>3. QED BY <3>1, <3>2
  <2>1. TypeOK'
    <3>1. DiskTypes' /\ PollTypes' /\ RestTypes' BY <1>t, <1>u, <2>u, <2>s DEF DiskTypes, PollTypes, RestTypes
    <3>2. QED BY <1>u, <2>t, <3>1, StopsTails, TypePartsNext
  <2>2. PollInv'
    <3>1. \A g \in todo' : slot[g] # NoEntry /\ g # f /\ g \in Files BY <1>t, <1>u DEF FileInv, PollInv, Listed, PollTypes
    <3>2. QED BY <1>u, <2>u, <2>s, <3>1 DEF PollInv, Listed
  <2>3. LiveTailIsListed'
    <3> SUFFICES ASSUME NEW t \in Tails, tl'[t].open PROVE slot'[tl'[t].file].tail = t /\ ~slot'[tl'[t].file].inactive
      BY DEF LiveTailIsListed
    <3>1. tl'[t] = tl[t] BY <1>u, <2>t, StopsTails
    <3>2. tl[t].file \in Files /\ slot[tl[t].file].tail = t /\ ~slot[tl[t].file].inactive
      BY <3>1, TailFacts DEF FileInv, LiveTailIsListed
    <3>3. tl[t].file # f
      <4>1. CASE tl[t].file = f
        <5>1. tl'[t] = StoppedTail(t) BY <1>t, <2>u, <3>2, <4>1, StoppedType DEF TailTypes
        <5>2. QED BY <5>1, StoppedType
      <4>2. QED BY <4>1
    <3>4. QED BY <2>s, <3>1, <3>2, <3>3
  <2>4. FeedInv'
    <3>1. \A t \in Tails : tl'[t].pc \in {"none", tl[t].pc} BY <1>u, <2>t, StopsTails
    <3>2. QED BY <1>u, <3>1 DEF FileInv, FeedInv
  <2>5. ClosedInv' BY <1>u DEF FileInv, ClosedInv
  <2>6. StayInv'
    <3>1. CASE ~Undisturbed BY <1>u, <3>1 DEF StayInv, Undisturbed
    <3>2. CASE Undisturbed
      <4>1. FilesStay /\ ~conf.Inactivity BY <3>2 DEF FileInv, StayInv, Undisturbed
      <4>2. CheckGone(f) BY <1>3, <4>1 DEF CheckInactive, GoesInactive
      <4>3. slot[f] = NoEntry
        <5>1. Listed(f) => slot[f].inode = disk[f] BY <4>1 DEF FilesStay
        <5>2. QED BY <4>2, <5>1 DEF CheckGone, Gone, Listed
      <4>4. slot' = slot BY <1>t, <4>2, <4>3 DEF CheckGone, RestTypes
      <4>5. QED BY <1>u, <2>u, <2>t, <4>4, StopsStay
    <3>3. QED BY <3>1, <3>2
  <2>7. QED BY <2>1, <2>2, <2>3, <2>4, <2>5, <2>6 DEF FileInv
<1>4. QED BY <1>1, <1>2, <1>3 DEF PollCheck

-----------------------------------------------------------------------------
\* A tail is opened for the file the poll loop has looked at; none is open for it.
Opens(t, pos) ==
  /\ t \in Tails /\ NewTail(t) /\ stat # NoLine /\ disk[stat[1]] # None
  /\ slot[stat[1]] = NoEntry \/ slot[stat[1]].inactive
  /\ pos \in 0 .. lines[stat[1]][disk[stat[1]]]
  /\ tl' = Opened(t, stat[1], pos)
  /\ slot' = [slot EXCEPT ![stat[1]] = [tail |-> t, inode |-> stat[2], inactive |-> FALSE]]
  /\ UNCHANGED <<conf, disk, used, lines, mtimeOld, mu, todo, matches, firstRun, serialFeed, closer, shipped, again>>
  /\ poll # "exited" /\ stat' = NoLine /\ dataOld' \in [Files -> BOOLEAN] /\ lateOpen' \in BOOLEAN
  /\ (poll = "reopen" /\ poll' = "check") \/ (poll = "open" /\ poll' = "new")

LEMMA OpensKeeps == ASSUME FileInv, NEW t, NEW pos, Opens(t, pos) PROVE FileInv'
<1>t. DiskTypes /\ PollTypes /\ TailTypes /\ RestTypes /\ conf \in Confs BY TypeParts DEF FileInv, DiskTypes
<1> DEFINE f == stat[1]
           r == [NoTail EXCEPT !.pc = "start", !.open = TRUE, !.file = f, !.gen = disk[f], !.pos = pos]
           e == [tail |-> t, inode |-> stat[2], inactive |-> FALSE]
<1>1. t \in Tails /\ tl[t] = NoTail /\ \A g \in Files : slot[g].tail # t BY DEF Opens, NewTail, Free
<1>2. f \in Files /\ stat[2] \in Gens /\ disk[f] \in Gens BY <1>t DEF Opens, PollTypes, DiskTypes
<1>3. lines[f][disk[f]] \in 0 .. MaxLines /\ MaxLines \in Nat BY <1>t, <1>2, FileConstants DEF DiskTypes
<1>4. pos \in 0 .. MaxLines /\ pos <= lines[f][disk[f]] BY <1>3 DEF Opens
<1>5. /\ r \in TailType /\ r.pc = "start" /\ r.open /\ r.file = f /\ r.gen = disk[f] /\ r.pos = pos
  <2>1. NoTail \in TailType BY <1>t, EmptyTail
  <2>2. QED BY <1>2, <1>4, <2>1 DEF TailType
<1>6. tl' = [tl EXCEPT ![t] = r] /\ slot' = [slot EXCEPT ![f] = e] BY DEF Opens, Opened
<1>7. e \in SlotType /\ e.tail = t /\ ~e.inactive /\ e.inode = stat[2] /\ e # NoEntry
  <2>1. t # None BY <1>1, TailAssumption DEF None
  <2>2. QED BY <1>1, <1>2, <2>1 DEF SlotType, NoEntry
<1> HIDE DEF r, e
<1>8. tl'[t] = r /\ tl' \in [Tails -> TailType] /\ \A u \in Tails : u # t => tl'[u] = tl[u]
  BY <1>t, <1>1, <1>5, <1>6 DEF TailTypes
<1>9. slot'[f] = e /\ slot' \in [Files -> SlotType] /\ \A g \in Files : g # f => slot'[g] = slot[g]
  BY <1>t, <1>2, <1>6, <1>7 DEF RestTypes
<1>u. /\ UNCHANGED <<conf, disk, used, lines, mtimeOld, mu, todo, matches, firstRun, serialFeed, closer, shipped, again>>
      /\ poll # "exited" /\ stat' = NoLine /\ poll' \notin {"reopen", "open"}
  BY DEF Opens
<1>10. TypeOK'
  <2>1. DiskTypes' BY <1>t, <1>u DEF DiskTypes, Opens
  <2>2. PollTypes' BY <1>t, <1>u DEF PollTypes, Opens
  <2>3. RestTypes' BY <1>t, <1>u, <1>9 DEF RestTypes, Opens
  <2>4. TailTypes' BY <1>t, <1>u, <1>2, <1>4, <1>5, <1>8 DEF TailTypes
  <2>5. QED BY <2>1, <2>2, <2>3, <2>4, TypePartsNext
<1>11. PollInv'
  <2>1. poll' = "check" => poll = "reopen" BY DEF Opens
  <2>2. \A g \in todo : poll = "reopen" => slot'[g] # NoEntry BY <1>t, <1>7, <1>9 DEF FileInv, PollInv, Listed, PollTypes
  <2>3. QED BY <1>u, <2>1, <2>2 DEF PollInv, Listed
<1>12. LiveTailIsListed'
  <2> SUFFICES ASSUME NEW u \in Tails, tl'[u].open PROVE slot'[tl'[u].file].tail = u /\ ~slot'[tl'[u].file].inactive
    BY DEF LiveTailIsListed
  <2>1. CASE u = t BY <1>5, <1>7, <1>8, <1>9, <2>1
  <2>2. CASE u # t
    <3>1. tl'[u] = tl[u] /\ tl[u].open BY <1>8, <2>2
    <3>2. tl[u].file \in Files /\ slot[tl[u].file].tail = u /\ ~slot[tl[u].file].inactive
      BY <3>1, TailFacts DEF FileInv, LiveTailIsListed
    <3>3. u # None BY TailAssumption DEF None
    <3>4. tl[u].file # f BY <3>2, <3>3 DEF Opens, NoEntry
    <3>5. QED BY <1>9, <3>1, <3>2, <3>4
  <2>3. QED BY <2>1, <2>2
<1>13. FeedInv' BY <1>u, <1>5, <1>8 DEF FileInv, FeedInv
<1>14. ClosedInv' BY <1>u DEF FileInv, ClosedInv
<1>15. StayInv'
  <2> SUFFICES ASSUME Undisturbed PROVE FilesStay' /\ TailsStay' /\ ShippedBehind' /\ again' = {}
    BY <1>u DEF StayInv, Undisturbed
  <2>i. FilesStay /\ TailsStay /\ ShippedBehind /\ again = {} BY DEF FileInv, StayInv
  <2>1. stat[2] = 1 /\ disk[f] = 1 BY <1>2, <2>i DEF FilesStay, Gens, Opens, None
  <2>2. ~Listed(f) /\ slot[f].tail = None
    <3>1. ~slot[f].inactive BY <1>t, <1>2, <2>i, EntryHasTail DEF FilesStay, RestTypes
    <3>2. QED BY <3>1 DEF Opens, Listed, NoEntry
  <2>3. FilesStay'
    <3>1. \A g \in Files : disk[g] = used[g] /\ used[g] \in {0, 1} BY <2>i DEF FilesStay
    <3>2. ASSUME NEW g \in Files, slot'[g] # NoEntry PROVE slot'[g].inode = 1 /\ disk[g] = 1 /\ ~slot'[g].inactive
      <4>1. CASE g = f BY <1>7, <1>9, <2>1, <4>1
      <4>2. CASE g # f BY <1>9, <2>i, <3>2, <4>2 DEF FilesStay, Listed
      <4>3. QED BY <4>1, <4>2
    <3>3. QED BY <1>u, <3>1, <3>2 DEF FilesStay, Listed
  <2>4. \A u \in Tails : tl[u] # NoTail => tl[u].file # f
    <3>1. \A u \in Tails : u # None BY TailAssumption DEF None
    <3>2. QED BY <2>2, <2>i, <3>1 DEF TailsStay
  <2>5. TailsStay'
    <3> SUFFICES ASSUME NEW u \in Tails, tl'[u] # NoTail
        PROVE /\ slot'[tl'[u].file].tail = u /\ tl'[u].gen = 1
              /\ tl'[u].pc = "ship" => tl'[u].line = <<1, tl'[u].pos>>
      BY DEF TailsStay
    <3>1. CASE u = t BY <1>5, <1>7, <1>8, <1>9, <2>1, <3>1
    <3>2. CASE u # t
      <4>1. tl'[u] = tl[u] /\ tl[u] # NoTail /\ tl[u].file # f /\ tl[u].file \in Files BY <1>t, <1>8, <2>4, <3>2 DEF TailTypes
      <4>2. slot'[tl[u].file] = slot[tl[u].file] BY <1>9, <4>1
      <4>3. QED BY <2>i, <4>1, <4>2 DEF TailsStay
    <3>3. QED BY <3>1, <3>2
  <2>6. ShippedBehind'
    <3> SUFFICES ASSUME NEW x \in shipped
        PROVE /\ slot'[x[1]] # NoEntry
              /\ \A u \in Tails : tl'[u] # NoTail /\ tl'[u].file = x[1] =>
                   x[3] <= tl'[u].pos /\ (tl'[u].pc = "ship" => x[3] < tl'[u].pos)
      BY <1>u DEF ShippedBehind, Listed
    <3>1. x[1] \in Files /\ Listed(x[1]) BY <1>t, <2>i DEF ShippedBehind, RestTypes
    <3>2. x[1] # f BY <2>2, <3>1
    <3>3. slot'[x[1]] # NoEntry BY <1>9, <3>1, <3>2 DEF Listed
    <3>4. ASSUME NEW u \in Tails, tl'[u] # NoTail, tl'[u].file = x[1]
          PROVE x[3] <= tl'[u].pos /\ (tl'[u].pc = "ship" => x[3] < tl'[u].pos)
      <4>1. u # t BY <1>5, <1>8, <3>2, <3>4
      <4>2. QED BY <1>8, <2>i, <3>4, <4>1 DEF ShippedBehind
    <3>5. QED BY <3>3, <3>4
  <2>7. QED BY <1>u, <2>i, <2>3, <2>5, <2>6
<1>16. QED BY <1>10, <1>11, <1>12, <1>13, <1>14, <1>15 DEF FileInv

\* A file that is gone when the poll loop opens it.
LEMMA OpensNothing ==
  ASSUME FileInv, (poll = "reopen" /\ poll' = "check") \/ (poll = "open" /\ poll' = "new"), stat' = NoLine, lateOpen' \in BOOLEAN,
         UNCHANGED <<conf, disk, used, lines, mtimeOld, dataOld, mu, todo, matches, firstRun, slot, tl, serialFeed, closer,
                     shipped, again>>
  PROVE FileInv'
<1>t. DiskTypes /\ PollTypes /\ TailTypes /\ RestTypes /\ conf \in Confs BY TypeParts DEF FileInv, DiskTypes
<1>1. PollTypes' BY <1>t DEF PollTypes
<1>2. PollInv' BY DEF FileInv, PollInv, Listed
<1>3. TypeOK' BY <1>t, <1>1, TypePartsNext DEF DiskTypes, TailTypes, RestTypes
<1>4. LiveTailIsListed' /\ FeedInv' /\ ClosedInv' BY DEF FileInv, LiveTailIsListed, FeedInv, ClosedInv
<1>5. StayInv'
  <2> SUFFICES ASSUME Undisturbed PROVE FilesStay' /\ TailsStay' /\ ShippedBehind' /\ again' = {}
    BY DEF StayInv, Undisturbed
  <2>i. FilesStay /\ TailsStay /\ ShippedBehind /\ again = {} BY DEF FileInv, StayInv
  <2>1. QED BY <2>i DEF FilesStay, TailsStay, ShippedBehind, Listed
<1>6. QED BY <1>2, <1>3, <1>4, <1>5 DEF FileInv

LEMMA PollOpenKeeps == FileInv /\ (PollReopen \/ PollOpen) => FileInv'
<1> SUFFICES ASSUME FileInv, PollReopen \/ PollOpen PROVE FileInv' OBVIOUS
<1>t. DiskTypes /\ PollTypes /\ RestTypes /\ conf \in Confs BY TypeParts DEF FileInv, DiskTypes
<1> DEFINE f == stat[1]
<1>p. /\ stat # NoLine /\ f \in Files
      /\ poll = "reopen" => slot[f].inactive
      /\ poll = "open" => slot[f] = NoEntry
  BY <1>t DEF PollReopen, PollOpen, FileInv, PollInv, PollTypes
<1>d. disk[f] # None => disk[f] \in Gens /\ lines[f][disk[f]] \in Nat BY <1>t, <1>p DEF DiskTypes
<1>1. CASE disk[f] = None
  <2>1. CASE PollReopen
    <3>1. lateOpen' \in BOOLEAN BY <1>t, <2>1 DEF PollReopen, RestTypes
    <3>2. UNCHANGED <<tl, slot>> BY <1>1, <2>1 DEF PollReopen
    <3>3. poll = "reopen" /\ poll' = "check" /\ stat' = NoLine BY <2>1 DEF PollReopen
    <3>4. UNCHANGED <<conf, disk, used, lines, mtimeOld, dataOld, mu, todo, matches, firstRun, serialFeed, closer, shipped, again>>
      BY <2>1 DEF PollReopen, diskVars
    <3>5. UNCHANGED <<conf, disk, used, lines, mtimeOld, dataOld, mu, todo, matches, firstRun, slot, tl, serialFeed, closer,
                      shipped, again>>
      BY <3>2, <3>4
    <3>6. QED BY <3>1, <3>3, <3>5, OpensNothing, Zenon
  <2>2. CASE PollOpen
    <3>1. lateOpen' \in BOOLEAN BY <1>t, <2>2 DEF PollOpen, RestTypes, histVars
    <3>2. QED BY <1>1, <2>2, <3>1, OpensNothing DEF PollOpen, diskVars, histVars
  <2>3. QED BY <2>1, <2>2
<1>2. CASE disk[f] # None
  <2>1. CASE PollReopen
    <3>1. PICK t \in Tails :
            /\ NewTail(t) /\ tl' = Opened(t, f, 0)
            /\ slot' = [slot EXCEPT ![f] = [tail |-> t, inode |-> stat[2], inactive |-> FALSE]]
      BY <1>2, <2>1 DEF PollReopen
    <3>2. 0 \in 0 .. lines[f][disk[f]] /\ lateOpen' \in BOOLEAN /\ dataOld' \in [Files -> BOOLEAN]
      BY <1>t, <1>d, <1>2, <2>1 DEF PollReopen, RestTypes, DiskTypes
    <3>u. UNCHANGED <<conf, disk, used, lines, mtimeOld, mu, todo, matches, firstRun, serialFeed, closer, shipped, again>>
      BY <2>1 DEF PollReopen, diskVars
    <3>s. poll = "reopen" /\ poll' = "check" /\ stat' = NoLine /\ poll # "exited" BY <2>1 DEF PollReopen
    <3>3. Opens(t, 0) BY <1>p, <1>2, <3>1, <3>2, <3>u, <3>s, Zenon DEF Opens
    <3>4. QED BY <3>3, OpensKeeps
  <2>2. CASE PollOpen
    <3>1. PICK t \in Tails :
            /\ NewTail(t) /\ tl' = Opened(t, f, StartAt(f))
            /\ slot' = [slot EXCEPT ![f] = [tail |-> t, inode |-> stat[2], inactive |-> FALSE]]
      BY <1>2, <2>2 DEF PollOpen
    <3>2. StartAt(f) \in 0 .. lines[f][disk[f]]
      <4>1. lines[f][disk[f]] \in Nat BY <1>d, <1>2
      <4>2. StartAt(f) \in {0, lines[f][disk[f]]} BY DEF StartAt
      <4>3. QED BY <4>1, <4>2
    <3>3. lateOpen' \in BOOLEAN /\ dataOld' \in [Files -> BOOLEAN]
      BY <1>t, <1>2, <2>2 DEF PollOpen, RestTypes, DiskTypes, histVars
    <3>4. Opens(t, StartAt(f)) BY <1>p, <1>2, <2>2, <3>1, <3>2, <3>3 DEF Opens, PollOpen, diskVars, histVars
    <3>5. QED BY <3>4, OpensKeeps
  <2>3. QED BY <2>1, <2>2
<1>3. QED BY <1>1, <1>2

\* Every step of the file adapter.
LEMMA FileNext == FileInv /\ [Next]_vars => FileInv'
<1> SUFFICES ASSUME FileInv, [Next]_vars PROVE FileInv' OBVIOUS
<1>1. CASE UNCHANGED vars
  <2>1. TypeOK'
    <3>1. DiskTypes /\ PollTypes /\ TailTypes /\ RestTypes BY TypeParts DEF FileInv
    <3>2. DiskTypes' /\ PollTypes' /\ TailTypes' /\ RestTypes'
      BY <1>1, <3>1 DEF DiskTypes, PollTypes, TailTypes, RestTypes, vars, diskVars, pollVars, histVars
    <3>3. QED BY <3>2, TypePartsNext
  <2>2. PollInv' /\ LiveTailIsListed' /\ FeedInv' /\ ClosedInv'
    BY <1>1 DEF FileInv, PollInv, LiveTailIsListed, FeedInv, ClosedInv, Listed, vars, diskVars, pollVars, histVars
  <2>3. StayInv'
    BY <1>1 DEF FileInv, StayInv, FilesStay, TailsStay, ShippedBehind, Undisturbed, Listed, vars, diskVars, pollVars, histVars
  <2>4. QED BY <2>1, <2>2, <2>3 DEF FileInv
<1>2. CASE Environment BY <1>2, EnvironmentKeeps
<1>3. CASE Poll BY <1>3, PollTurns, PollNewKeeps, PollCheckKeeps, PollOpenKeeps DEF Poll
<1>4. CASE CloseCancel \/ CloseStopTails \/ CloseWait BY <1>4, CloseKeeps
<1>5. ASSUME NEW t \in Tails, Input(t) \/ InputFails(t) \/ TailReopens(t) \/ TailEnds(t) PROVE FileInv'
  BY <1>5, StartKeeps, AcquireKeeps, ReceiveKeeps, ShipKeeps, EndKeeps, ReopensKeeps, EndsKeeps DEF Input
<1>6. QED BY <1>1, <1>2, <1>3, <1>4, <1>5 DEF Next, Terminated, InputTick

\* Two handlers that read hold the same semaphore.
LEMMA FeedIsOne == FileInv => OneFileAtATime
BY DEF FileInv, FeedInv, OneFileAtATime

-----------------------------------------------------------------------------
(***************************************************************************)
(* k8s_pods: the first state, and what each group of steps leaves alone.   *)
(***************************************************************************)
KFsTypes ==
  /\ kConf \in K8sConfs
  /\ kPod \in [Pods -> {"no", "there", "gone"}] /\ kCon \in [Containers -> {"no", "there", "gone"}]
  /\ kLogs \in [Containers -> 0 .. MaxLogs] /\ kRemoved \in [Containers -> SUBSET K!Logs]
  /\ kLines \in [Containers -> [K!Logs -> 0 .. PodLines]] /\ kRaced \in BOOLEAN
PodEvents == Seq([op : {"create", "remove"}, name : Containers \union {K!None}])
KPodTypes ==
  /\ kRoot \in {"init", "loop", "done"} /\ kRootQ \in Seq(Pods)
  /\ kPw \in [Pods -> [K!Copies -> {"no", "new", "added", "loop", "done"}]]
  /\ kPq \in [Pods -> [K!Copies -> PodEvents]]
  /\ kRunning \in [Pods -> [K!Copies -> SUBSET Containers]]
LogEvents == Seq([op : {"create", "remove"}, name : 0 .. MaxLogs])
KConTypes ==
  /\ kCw \in [K!Watch -> {"no", "new", "added", "loop", "stopping", "done"}] /\ kStop \subseteq K!Watch
  /\ kCq \in [K!Watch -> LogEvents]
  /\ kCur \in [K!Watch -> 0 .. MaxLogs] /\ kFirst \in [K!Watch -> 0 .. MaxLogs]
  /\ kThen \in [K!Watch -> K!Return .. MaxLogs] /\ kPanicked \in BOOLEAN
KLineTypes ==
  /\ kTail \in [K!Watch -> [K!Logs -> {"no", "open", "ending", "ended"}]]
  /\ kRead \in [K!Watch -> [K!Logs -> 0 .. PodLines]]
  /\ kHand \in [K!Watch -> [K!Logs -> K!Line \union {K!NoLine, K!Done}]]
  /\ kConsumer \in K!Line \union {K!NoLine, K!Done}
  /\ kCloser \in {"no", "wait", "drain", "closed"}
  /\ kShipped \union kAgain \union kLate \subseteq K!Line

LEMMA KTypeParts == K!TypeOK <=> KFsTypes /\ KPodTypes /\ KConTypes /\ KLineTypes
<1>1. {kPanicked, kRaced} \subseteq BOOLEAN <=> kPanicked \in BOOLEAN /\ kRaced \in BOOLEAN OBVIOUS
<1>2. QED BY <1>1 DEF K!TypeOK, KFsTypes, KPodTypes, KConTypes, KLineTypes, PodEvents, LogEvents

LEMMA KTypePartsNext == K!TypeOK' <=> KFsTypes' /\ KPodTypes' /\ KConTypes' /\ KLineTypes'
<1>1. {kPanicked', kRaced'} \subseteq BOOLEAN <=> kPanicked' \in BOOLEAN /\ kRaced' \in BOOLEAN OBVIOUS
<1>2. QED BY <1>1 DEF K!TypeOK, KFsTypes, KPodTypes, KConTypes, KLineTypes, PodEvents, LogEvents

\* The types of the constants and of the situation in use.
LEMMA K8sConstants ==
  ASSUME kConf \in K8sConfs
  PROVE /\ MaxLogs \in Nat /\ MaxLogs > 0 /\ PodLines \in Nat
        /\ kConf.podOf \in [Containers -> Pods] /\ kConf.Removes \in BOOLEAN /\ kConf.Races \in BOOLEAN
        /\ kConf.logs \in 1 .. MaxLogs /\ kConf.lines \in 0 .. PodLines
BY K8sAssumption DEF K!Conf, K!Logs

\* The first state.
LEMMA K8sInit == K!Init => K8sInv
<1> SUFFICES ASSUME K!Init PROVE K8sInv OBVIOUS
<1>c. kConf \in K8sConfs BY DEF K!Init
<1> USE <1>c, K8sConstants
<1>w. \A w \in K!Watch : /\ kCw[w] = "no" /\ kCq[w] = <<>>
                         /\ \A l \in K!Logs : kTail[w][l] = "no" /\ kHand[w][l] = K!Done
  BY DEF K!Init
<1>p. \A p \in Pods : \A k \in K!Copies : kPw[p][k] = "no" /\ kPq[p][k] = <<>>
  BY DEF K!Init
<1>1. K!TypeOK
  <2>1. KFsTypes
    <3>1. kLogs \in [Containers -> 0 .. MaxLogs] BY DEF K!Init
    <3>2. kLines \in [Containers -> [K!Logs -> 0 .. PodLines]] BY DEF K!Init
    <3>3. kPod \in [Pods -> {"no", "there", "gone"}] BY DEF K!Init
    <3>4. kCon \in [Containers -> {"no", "there", "gone"}] /\ kRemoved \in [Containers -> SUBSET K!Logs] /\ kRaced \in BOOLEAN
      BY DEF K!Init
    <3>5. QED BY <3>1, <3>2, <3>3, <3>4 DEF KFsTypes
  <2>2. KPodTypes
    <3>1. <<>> \in PodEvents BY DEF PodEvents
    <3>2. QED BY <3>1 DEF K!Init, KPodTypes
  <2>3. KConTypes
    <3>1. <<>> \in LogEvents BY DEF LogEvents
    <3>2. kCq \in [K!Watch -> LogEvents] /\ kCw = [w \in K!Watch |-> "no"] /\ kStop = {} /\ kPanicked = FALSE BY <3>1 DEF K!Init
    <3>3. kCur \in [K!Watch -> 0 .. MaxLogs] /\ kFirst \in [K!Watch -> 0 .. MaxLogs] BY DEF K!Init, K!None
    <3>4. kThen \in [K!Watch -> K!Return .. MaxLogs]
      <4>1. K!None \in K!Return .. MaxLogs BY DEF K!None, K!Return
      <4>2. QED BY <4>1 DEF K!Init
    <3>5. QED BY <3>2, <3>3, <3>4 DEF KConTypes
  <2>4. KLineTypes BY DEF K!Init, KLineTypes
  <2>5. QED BY <2>1, <2>2, <2>3, <2>4, KTypeParts
<1>2. KCurInv BY <1>w DEF KCurInv
<1>3. KHandInv BY <1>w DEF KHandInv
<1>4. KLateInv BY DEF K!Init, KLateInv
<1>5. KStartInv BY <1>w, <1>p DEF KStartInv
<1>6. KKeptInv BY <1>w, <1>p DEF K!Init, KKeptInv, K!CrashNeedsBareContainer
<1>7. KOnceInv BY <1>p DEF K!Init, KOnceInv, K!Copies
<1>8. KReadInv BY DEF K!Init, KReadInv, Delivered
<1>9. QED BY <1>1, <1>2, <1>3, <1>4, <1>5, <1>6, <1>7, <1>8 DEF K8sInv

\* What the groups of steps leave alone.
LEMMA FileSystemFrame ==
  K!FileSystem => UNCHANGED <<kConf, kRoot, kPw, kRunning, kCw, kStop, kCur, kFirst, kThen, kTail, kRead, kHand, kConsumer,
                              kShipped, kAgain, kLate, kCloser, kPanicked>>
BY DEF K!FileSystem, K!NewPod, K!RemovePod, K!NewContainer, K!NewLog, K!Write, K!RemoveContainer, K!RemoveLog, K!podVars, K!conVars,
       K!lineVars

LEMMA RootFrame ==
  K!Root => UNCHANGED <<kConf, kPod, kCon, kLogs, kRemoved, kLines, kPq, kRunning, kCw, kCq, kStop, kCur, kFirst, kThen,
                        kTail, kRead, kHand, kConsumer, kShipped, kAgain, kLate, kCloser, kPanicked, kRaced>>
BY DEF K!Root, K!RootReadDir, K!RootEvent, K!RootStops, K!fsVars, K!conVars, K!lineVars

LEMMA PodFrame ==
  ASSUME NEW p, NEW k, K!WatchPod(p, k)
  PROVE UNCHANGED <<kConf, kPod, kCon, kLogs, kRemoved, kLines, kRoot, kRootQ, kCq, kCur, kFirst, kThen,
                    kTail, kRead, kHand, kConsumer, kShipped, kAgain, kLate, kCloser, kRaced>>
BY DEF K!WatchPod, K!PodAdd, K!PodReadDir, K!PodEvent, K!PodStops, K!PodUnchanged, K!fsVars, K!conVars, K!lineVars

LEMMA ContainerFrame ==
  ASSUME NEW w, K!WatchContainer(w)
  PROVE UNCHANGED <<kConf, kPod, kCon, kLogs, kRemoved, kLines, kRoot, kRootQ, kPw, kPq, kRunning, kStop, kRead, kConsumer,
                    kShipped, kAgain, kLate, kCloser, kRaced>>
BY DEF K!WatchContainer, K!ContainerAdd, K!ContainerReadDir, K!ContainerEvent, K!ContainerStops, K!StoppedAtEOF,
       K!ContainerUnchanged, K!fsVars, K!podVars

LEMMA LineFrame ==
  ASSUME NEW w, NEW l, K!ProcessFile(w, l) \/ K!Consumer
  PROVE UNCHANGED <<kConf, kPod, kCon, kLogs, kRemoved, kLines, kRoot, kRootQ, kPw, kPq, kRunning, kCw, kCq, kStop, kCur,
                    kFirst, kThen, kCloser, kPanicked, kRaced>>
BY DEF K!ProcessFile, K!TailReads, K!TailEnds, K!ProcessSends, K!ProcessEnds, K!Consumer, K!ConsumerShips, K!ConsumerFails,
       K!ConsumerEnds, K!LineUnchanged, K!fsVars, K!podVars, K!conVars

-----------------------------------------------------------------------------
\* A queue with one event more, and one without its first.
LEMMA Longer ==
  ASSUME NEW S, NEW q \in Seq(S), NEW e \in S
  PROVE /\ Append(q, e) \in Seq(S) /\ Len(Append(q, e)) = Len(q) + 1 /\ Len(q) \in Nat
        /\ \A i \in 1 .. Len(q) : Append(q, e)[i] = q[i]
        /\ Append(q, e)[Len(q) + 1] = e
OBVIOUS

LEMMA Shorter ==
  ASSUME NEW S, NEW q \in Seq(S), q # <<>>
  PROVE /\ Tail(q) \in Seq(S) /\ Head(q) \in S /\ Head(q) = q[1] /\ 1 \in 1 .. Len(q) /\ Len(q) \in Nat
        /\ Len(Tail(q)) = Len(q) - 1
        /\ \A i \in 1 .. Len(Tail(q)) : i + 1 \in 1 .. Len(q) /\ Tail(q)[i] = q[i + 1]
OBVIOUS

\* What a queue of a watcher may be told.
PodEvent(p, e) ==
  /\ e \in [op : {"create", "remove"}, name : Containers \union {K!None}]
  /\ e.op = "create" => e.name \in Containers /\ kConf.podOf[e.name] = p
  /\ e.op = "remove" => kConf.Removes
LogEvent(e) == e \in [op : {"create", "remove"}, name : 0 .. MaxLogs] /\ (e.op = "remove" => kConf.Removes)
PodTold(p, k) == kPq'[p][k] = kPq[p][k] \/ \E e : PodEvent(p, e) /\ kPq'[p][k] = Append(kPq[p][k], e)
LogTold(w) == kCq'[w] = kCq[w] \/ \E e : LogEvent(e) /\ kCq'[w] = Append(kCq[w], e)

LEMMA ToldPods ==
  ASSUME K8sInv, kPq' = [p \in Pods |-> kPq'[p]], \A p \in Pods : kPq'[p] = [k \in K!Copies |-> kPq'[p][k]],
         \A p \in Pods : \A k \in K!Copies : PodTold(p, k), UNCHANGED kConf
  PROVE /\ kPq' \in [Pods -> [K!Copies -> PodEvents]]
        /\ \A p \in Pods : \A k \in K!Copies : \A i \in 1 .. Len(kPq'[p][k]) :
             /\ kPq'[p][k][i].op = "create" =>
                  kPq'[p][k][i].name \in Containers /\ kConf.podOf[kPq'[p][k][i].name] = p
             /\ ~kConf.Removes => kPq'[p][k][i].op = "create"
<1>1. KPodTypes /\ KStartInv /\ KKeptInv BY KTypeParts DEF K8sInv
<1>2. ASSUME NEW p \in Pods, NEW k \in K!Copies
      PROVE /\ kPq'[p][k] \in PodEvents
            /\ \A i \in 1 .. Len(kPq'[p][k]) :
                 /\ kPq'[p][k][i].op = "create" =>
                      kPq'[p][k][i].name \in Containers /\ kConf.podOf[kPq'[p][k][i].name] = p
                 /\ ~kConf.Removes => kPq'[p][k][i].op = "create"
  <2>1. kPq[p][k] \in PodEvents BY <1>1, <1>2 DEF KPodTypes
  <2>2. CASE kPq'[p][k] = kPq[p][k]
    BY <1>1, <2>1, <2>2 DEF KStartInv, KKeptInv
  <2>3. ASSUME NEW e, PodEvent(p, e), kPq'[p][k] = Append(kPq[p][k], e)
        PROVE /\ kPq'[p][k] \in PodEvents
              /\ \A i \in 1 .. Len(kPq'[p][k]) :
                   /\ kPq'[p][k][i].op = "create" =>
                        kPq'[p][k][i].name \in Containers /\ kConf.podOf[kPq'[p][k][i].name] = p
                   /\ ~kConf.Removes => kPq'[p][k][i].op = "create"
    <3> DEFINE q == kPq[p][k]
    <3>1. e \in [op : {"create", "remove"}, name : Containers \union {K!None}] BY <2>3 DEF PodEvent
    <3>2. /\ Append(q, e) \in PodEvents /\ Len(Append(q, e)) = Len(q) + 1 /\ Len(q) \in Nat
          /\ \A i \in 1 .. Len(q) : Append(q, e)[i] = q[i]
          /\ Append(q, e)[Len(q) + 1] = e
      BY <2>1, <3>1, Longer DEF PodEvents
    <3>3. ~kConf.Removes => e.op = "create" BY <2>3, <3>1 DEF PodEvent
    <3>4. \A i \in 1 .. Len(q) :
            /\ q[i].op = "create" => q[i].name \in Containers /\ kConf.podOf[q[i].name] = p
            /\ ~kConf.Removes => q[i].op = "create"
      BY <1>1 DEF KStartInv, KKeptInv
    <3>5. ASSUME NEW i \in 1 .. Len(Append(q, e))
          PROVE /\ Append(q, e)[i].op = "create" =>
                     Append(q, e)[i].name \in Containers /\ kConf.podOf[Append(q, e)[i].name] = p
                /\ ~kConf.Removes => Append(q, e)[i].op = "create"
      <4>1. CASE i \in 1 .. Len(q) BY <3>2, <3>4, <4>1
      <4>2. CASE i = Len(q) + 1 BY <2>3, <3>2, <3>3, <4>2 DEF PodEvent
      <4>3. QED BY <3>2, <4>1, <4>2
    <3>6. QED BY <2>3, <3>2, <3>5
  <2>4. QED BY <2>2, <2>3 DEF PodTold
<1>3. QED BY <1>2

LEMMA ToldContainers ==
  ASSUME K8sInv, kCq' = [w \in K!Watch |-> kCq'[w]], \A w \in K!Watch : LogTold(w), UNCHANGED kConf
  PROVE /\ kCq' \in [K!Watch -> LogEvents]
        /\ ~kConf.Removes => \A w \in K!Watch : \A i \in 1 .. Len(kCq'[w]) : kCq'[w][i].op = "create"
<1>1. KConTypes /\ KKeptInv BY KTypeParts DEF K8sInv
<1>2. ASSUME NEW w \in K!Watch
      PROVE kCq'[w] \in LogEvents /\ (~kConf.Removes => \A i \in 1 .. Len(kCq'[w]) : kCq'[w][i].op = "create")
  <2>1. kCq[w] \in LogEvents BY <1>1 DEF KConTypes
  <2>2. CASE kCq'[w] = kCq[w] BY <1>1, <2>1, <2>2 DEF KKeptInv
  <2>3. ASSUME NEW e, LogEvent(e), kCq'[w] = Append(kCq[w], e)
        PROVE kCq'[w] \in LogEvents /\ (~kConf.Removes => \A i \in 1 .. Len(kCq'[w]) : kCq'[w][i].op = "create")
    <3> DEFINE q == kCq[w]
    <3>1. e \in [op : {"create", "remove"}, name : 0 .. MaxLogs] /\ (~kConf.Removes => e.op = "create") BY <2>3 DEF LogEvent
    <3>2. /\ Append(q, e) \in LogEvents /\ Len(Append(q, e)) = Len(q) + 1 /\ Len(q) \in Nat
          /\ \A i \in 1 .. Len(q) : Append(q, e)[i] = q[i]
          /\ Append(q, e)[Len(q) + 1] = e
      BY <2>1, <3>1, Longer DEF LogEvents
    <3>3. ~kConf.Removes => \A i \in 1 .. Len(q) : q[i].op = "create" BY <1>1 DEF KKeptInv
    <3>4. QED BY <2>3, <3>1, <3>2, <3>3
  <2>4. QED BY <2>2, <2>3 DEF LogTold
<1>3. QED BY <1>2

\* The file system: only queues, directories and what is in them.
LEMMA FileSystemParts ==
  ASSUME K8sInv, KFsTypes', kRootQ' \in Seq(Pods),
         kPq' = [p \in Pods |-> kPq'[p]], \A p \in Pods : kPq'[p] = [k \in K!Copies |-> kPq'[p][k]],
         \A p \in Pods : \A k \in K!Copies : PodTold(p, k),
         kCq' = [w \in K!Watch |-> kCq'[w]], \A w \in K!Watch : LogTold(w),
         ~kRaced' => ~kRaced /\ KOnceInv',
         UNCHANGED <<kConf, kRoot, kPw, kRunning, kCw, kStop, kCur, kFirst, kThen, kTail, kRead, kHand, kConsumer,
                     kShipped, kAgain, kLate, kCloser, kPanicked>>
  PROVE K8sInv'
<1>t. KFsTypes /\ KPodTypes /\ KConTypes /\ KLineTypes BY KTypeParts DEF K8sInv
<1>1. K!TypeOK'
  <2>1. KPodTypes' BY <1>t, ToldPods DEF KPodTypes
  <2>2. KConTypes' BY <1>t, ToldContainers DEF KConTypes
  <2>3. KLineTypes' BY <1>t DEF KLineTypes
  <2>4. QED BY <2>1, <2>2, <2>3, KTypePartsNext
<1>2. KCurInv' /\ KHandInv' /\ KLateInv' BY DEF K8sInv, KCurInv, KHandInv, KLateInv
<1>3. KStartInv' BY ToldPods DEF K8sInv, KStartInv, K!Matches
<1>4. KKeptInv'
  <2>1. KKeptInv BY DEF K8sInv
  <2>2. ~kConf.Removes => /\ \A p \in Pods : \A k \in K!Copies : \A i \in 1 .. Len(kPq'[p][k]) : kPq'[p][k][i].op = "create"
                          /\ \A w \in K!Watch : \A i \in 1 .. Len(kCq'[w]) : kCq'[w][i].op = "create"
    BY ToldPods, ToldContainers
  <2>3. K!CrashNeedsBareContainer => K!CrashNeedsBareContainer' BY DEF K!CrashNeedsBareContainer
  <2>4. QED BY <2>1, <2>2, <2>3 DEF KKeptInv
<1>5. ~kRaced' => KReadInv' BY DEF K8sInv, KReadInv, Delivered, K!Matches
<1>6. QED BY <1>1, <1>2, <1>3, <1>4, <1>5 DEF K8sInv

\* A pod is queued once: it did not exist before.
LEMMA NewPodKeeps == ASSUME K8sInv, NEW p \in Pods, K!NewPod(p) PROVE K8sInv'
<1>t. KFsTypes /\ KPodTypes /\ KConTypes BY KTypeParts DEF K8sInv
<1>f. UNCHANGED <<kConf, kRoot, kPw, kRunning, kCw, kStop, kCur, kFirst, kThen, kTail, kRead, kHand, kConsumer,
                  kShipped, kAgain, kLate, kCloser, kPanicked>>
  BY FileSystemFrame DEF K!FileSystem
<1>u. UNCHANGED <<kCon, kLogs, kRemoved, kLines, kPq, kCq>> BY DEF K!NewPod, K!conVars
<1>1. kPod[p] = "no" /\ kPod' = [kPod EXCEPT ![p] = "there"] /\ kRaced' = (kRaced \/ kRoot = "init") BY DEF K!NewPod
<1>2. KFsTypes' BY <1>t, <1>f, <1>u, <1>1 DEF KFsTypes
<1>3. kRootQ' \in Seq(Pods) BY <1>t DEF K!NewPod, KPodTypes
<1>4. /\ kPq' = [q \in Pods |-> kPq'[q]] /\ \A q \in Pods : kPq'[q] = [k \in K!Copies |-> kPq'[q][k]]
      /\ \A q \in Pods : \A k \in K!Copies : PodTold(q, k)
      /\ kCq' = [w \in K!Watch |-> kCq'[w]] /\ \A w \in K!Watch : LogTold(w)
  BY <1>t, <1>u DEF KPodTypes, KConTypes, PodTold, LogTold
<1>5. ASSUME ~kRaced' PROVE ~kRaced /\ KOnceInv'
  <2>1. ~kRaced /\ kRoot # "init" /\ KOnceInv BY <1>1, <1>5 DEF K8sInv
  <2>2. \A q \in Pods : kPod'[q] # "no" <=> q = p \/ kPod[q] # "no" BY <1>t, <1>1 DEF KFsTypes
  <2>3. \A q \in Pods : kPw[q][2] = "no" /\ (kPod'[q] = "no" => kPw[q][1] = "no") BY <2>1, <2>2 DEF KOnceInv
  <2>4. kPw[p][1] = "no" BY <1>1, <2>1 DEF KOnceInv
  <2>5. \A i \in 1 .. Len(kRootQ) : /\ kRootQ[i] \in Pods /\ kRootQ[i] # p /\ kPod'[kRootQ[i]] # "no" /\ kPw[kRootQ[i]][1] = "no"
                                    /\ \A j \in 1 .. Len(kRootQ) : kRootQ[i] = kRootQ[j] => i = j
    BY <1>t, <1>1, <2>1, <2>2 DEF KOnceInv, KPodTypes
  <2>6. CASE kRootQ' = kRootQ BY <1>f, <2>1, <2>3, <2>5, <2>6 DEF KOnceInv
  <2>7. CASE kRootQ' = Append(kRootQ, p)
    <3>1. /\ Len(kRootQ') = Len(kRootQ) + 1 /\ Len(kRootQ) \in Nat /\ kRootQ'[Len(kRootQ) + 1] = p
          /\ \A i \in 1 .. Len(kRootQ) : kRootQ'[i] = kRootQ[i]
      BY <1>t, <2>7, Longer DEF KPodTypes
    <3>2. ASSUME NEW i \in 1 .. Len(kRootQ')
          PROVE /\ kPod'[kRootQ'[i]] # "no" /\ kPw[kRootQ'[i]][1] = "no"
                /\ \A j \in 1 .. Len(kRootQ') : kRootQ'[i] = kRootQ'[j] => i = j
      <4>1. CASE i = Len(kRootQ) + 1 BY <2>2, <2>4, <2>5, <3>1, <4>1
      <4>2. CASE i \in 1 .. Len(kRootQ) BY <2>5, <3>1, <4>2
      <4>3. QED BY <3>1, <4>1, <4>2
    <3>3. QED BY <1>f, <2>1, <2>3, <3>2 DEF KOnceInv
  <2>8. QED BY <2>1, <2>6, <2>7 DEF K!NewPod
<1>6. QED BY <1>2, <1>3, <1>4, <1>5, <1>f, FileSystemParts

\* The other steps of the file system create no pod.
LEMMA OldPodsKeep ==
  ASSUME K8sInv, KFsTypes', UNCHANGED <<kRootQ, kRoot, kPw>>, \A p \in Pods : kPod'[p] = "no" => kPod[p] = "no", kRaced => kRaced'
  PROVE kRootQ' \in Seq(Pods) /\ (~kRaced' => ~kRaced /\ KOnceInv')
<1>1. KPodTypes BY KTypeParts DEF K8sInv
<1>2. ASSUME ~kRaced' PROVE KOnceInv'
  <2>1. KOnceInv BY <1>2 DEF K8sInv
  <2>2. \A i \in 1 .. Len(kRootQ) : kRootQ[i] \in Pods BY <1>1 DEF KPodTypes
  <2>3. QED BY <2>1, <2>2 DEF KOnceInv
<1>3. QED BY <1>1, <1>2 DEF KPodTypes

\* Who is told of what happens in a directory.
LEMMA PodsTold ==
  ASSUME K8sInv, NEW p, NEW e, PodEvent(p, e), kPq' = K!TellPod(p, e)
  PROVE /\ kPq' = [q \in Pods |-> kPq'[q]] /\ \A q \in Pods : kPq'[q] = [k \in K!Copies |-> kPq'[q][k]]
        /\ \A q \in Pods : \A k \in K!Copies : PodTold(q, k)
<1>1. KPodTypes BY KTypeParts DEF K8sInv
<1>2. kPq' = [q \in Pods |-> kPq'[q]] BY <1>1 DEF K!TellPod, KPodTypes
<1>3. ASSUME NEW q \in Pods PROVE kPq'[q] = [k \in K!Copies |-> kPq'[q][k]] /\ \A k \in K!Copies : PodTold(q, k)
  <2>1. CASE q # p BY <1>1, <2>1 DEF K!TellPod, KPodTypes, PodTold
  <2>2. CASE q = p
    <3>1. kPq'[p] = [k \in K!Copies |-> IF K!Watching(kPw[p][k]) THEN Append(kPq[p][k], e) ELSE kPq[p][k]]
      BY <1>1, <2>2 DEF K!TellPod, KPodTypes
    <3>2. QED BY <2>2, <3>1 DEF PodTold
  <2>3. QED BY <2>1, <2>2
<1>4. QED BY <1>2, <1>3

LEMMA ContainersTold ==
  ASSUME K8sInv, NEW c, NEW e, LogEvent(e), kCq' = K!TellContainer(c, e)
  PROVE kCq' = [w \in K!Watch |-> kCq'[w]] /\ \A w \in K!Watch : LogTold(w)
BY DEF K!TellContainer, LogTold

LEMMA NoneTold ==
  ASSUME K8sInv
  PROVE /\ UNCHANGED kPq => /\ kPq' = [q \in Pods |-> kPq'[q]] /\ \A q \in Pods : kPq'[q] = [k \in K!Copies |-> kPq'[q][k]]
                            /\ \A q \in Pods : \A k \in K!Copies : PodTold(q, k)
        /\ UNCHANGED kCq => kCq' = [w \in K!Watch |-> kCq'[w]] /\ \A w \in K!Watch : LogTold(w)
BY KTypeParts DEF K8sInv, KPodTypes, KConTypes, PodTold, LogTold

LEMMA FileSystemKeeps == K8sInv /\ K!FileSystem => K8sInv'
<1> SUFFICES ASSUME K8sInv, K!FileSystem PROVE K8sInv' OBVIOUS
<1>t. KFsTypes /\ KPodTypes BY KTypeParts DEF K8sInv
<1>f. UNCHANGED <<kConf, kRoot, kPw, kRunning, kCw, kStop, kCur, kFirst, kThen, kTail, kRead, kHand, kConsumer,
                  kShipped, kAgain, kLate, kCloser, kPanicked>>
  BY FileSystemFrame
<1>c. /\ MaxLogs \in Nat /\ MaxLogs > 0 /\ PodLines \in Nat /\ kConf.podOf \in [Containers -> Pods]
      /\ kConf.logs \in 1 .. MaxLogs /\ kConf.lines \in 0 .. PodLines
  BY <1>t, K8sConstants DEF KFsTypes
<1>1. ASSUME NEW p \in Pods, K!RemovePod(p) PROVE K8sInv'
  <2>1. UNCHANGED <<kCon, kLogs, kRemoved, kLines, kRootQ, kCq, kRaced>> BY <1>1 DEF K!RemovePod, K!conVars
  <2>2. KFsTypes' /\ \A q \in Pods : kPod'[q] = "no" => kPod[q] = "no" BY <1>t, <1>f, <2>1, <1>1 DEF KFsTypes, K!RemovePod
  <2> DEFINE e == [op |-> "remove", name |-> K!None]
  <2>3. PodEvent(p, e) /\ kPq' = K!TellPod(p, e) BY <1>1 DEF PodEvent, K!RemovePod
  <2> HIDE DEF e
  <2>4. QED BY <1>f, <2>1, <2>2, <2>3, PodsTold, NoneTold, OldPodsKeep, FileSystemParts
<1>2. ASSUME NEW c \in Containers, K!NewContainer(c) PROVE K8sInv'
  <2>1. UNCHANGED <<kPod, kLogs, kRemoved, kLines, kRootQ, kCq, kRaced>> BY <1>2 DEF K!NewContainer, K!conVars
  <2>2. KFsTypes' /\ \A q \in Pods : kPod'[q] = "no" => kPod[q] = "no" BY <1>t, <1>f, <2>1, <1>2 DEF KFsTypes, K!NewContainer
  <2> DEFINE e == [op |-> "create", name |-> c]
             p == kConf.podOf[c]
  <2>3. PodEvent(p, e) /\ kPq' = K!TellPod(p, e) BY <1>2 DEF PodEvent, K!NewContainer
  <2> HIDE DEF e, p
  <2>4. QED BY <1>f, <2>1, <2>2, <2>3, PodsTold, NoneTold, OldPodsKeep, FileSystemParts
<1>3. ASSUME NEW c \in Containers, K!NewLog(c) PROVE K8sInv'
  <2>1. UNCHANGED <<kPod, kCon, kRemoved, kLines, kRootQ, kPq>> /\ (kRaced => kRaced') /\ kRaced' \in BOOLEAN
    BY <1>3 DEF K!NewLog, K!podVars
  <2>2. kLogs[c] \in 0 .. MaxLogs /\ kLogs[c] < kConf.logs /\ kLogs[c] + 1 \in 0 .. MaxLogs BY <1>t, <1>c, <1>3 DEF KFsTypes, K!NewLog
  <2>3. KFsTypes' BY <1>t, <1>f, <2>1, <2>2, <1>3 DEF KFsTypes, K!NewLog
  <2> DEFINE e == [op |-> "create", name |-> kLogs[c] + 1]
  <2>4. LogEvent(e) /\ kCq' = K!TellContainer(c, e) BY <1>3, <2>2 DEF LogEvent, K!NewLog
  <2> HIDE DEF e
  <2>5. QED BY <1>f, <2>1, <2>3, <2>4, ContainersTold, NoneTold, OldPodsKeep, FileSystemParts
<1>4. ASSUME NEW c \in Containers, K!Write(c) PROVE K8sInv'
  <2>1. UNCHANGED <<kPod, kCon, kLogs, kRemoved, kRootQ, kPq, kCq, kRaced>> BY <1>4 DEF K!Write, K!podVars, K!conVars
  <2>2. kLogs[c] \in K!Logs BY <1>t, <1>c, <1>4 DEF KFsTypes, K!Write, K!Logs
  <2>3. kLines[c][kLogs[c]] \in 0 .. PodLines /\ kLines[c][kLogs[c]] + 1 \in 0 .. PodLines
    BY <1>t, <1>c, <1>4, <2>2 DEF KFsTypes, K!Write
  <2>4. KFsTypes' BY <1>t, <1>f, <1>4, <2>1, <2>2, <2>3 DEF KFsTypes, K!Write
  <2>5. QED BY <1>f, <2>1, <2>4, NoneTold, OldPodsKeep, FileSystemParts
<1>5. ASSUME NEW c \in Containers, K!RemoveContainer(c) PROVE K8sInv'
  <2>1. UNCHANGED <<kPod, kLogs, kRemoved, kLines, kRootQ, kRaced>> BY <1>5 DEF K!RemoveContainer
  <2>2. KFsTypes' /\ \A q \in Pods : kPod'[q] = "no" => kPod[q] = "no" BY <1>t, <1>f, <2>1, <1>5 DEF KFsTypes, K!RemoveContainer
  <2> DEFINE e == [op |-> "remove", name |-> c]
             d == [op |-> "remove", name |-> K!None]
             p == kConf.podOf[c]
  <2>3. PodEvent(p, e) /\ kPq' = K!TellPod(p, e) BY <1>5 DEF PodEvent, K!RemoveContainer
  <2>4. LogEvent(d) /\ kCq' = K!TellContainer(c, d) BY <1>5, <1>c DEF LogEvent, K!RemoveContainer, K!None
  <2> HIDE DEF e, d, p
  <2>5. QED BY <1>f, <2>1, <2>2, <2>3, <2>4, PodsTold, ContainersTold, OldPodsKeep, FileSystemParts
<1>6. ASSUME NEW c \in Containers, NEW l \in K!Logs, K!RemoveLog(c, l) PROVE K8sInv'
  <2>1. UNCHANGED <<kPod, kCon, kLogs, kLines, kRootQ, kPq, kRaced>> BY <1>6 DEF K!RemoveLog, K!podVars
  <2>2. KFsTypes' BY <1>t, <1>f, <2>1, <1>6 DEF KFsTypes, K!RemoveLog
  <2> DEFINE e == [op |-> "remove", name |-> l]
  <2>3. LogEvent(e) /\ kCq' = K!TellContainer(c, e) BY <1>c, <1>6 DEF LogEvent, K!RemoveLog, K!Logs
  <2> HIDE DEF e
  <2>4. QED BY <1>f, <2>1, <2>2, <2>3, ContainersTold, NoneTold, OldPodsKeep, FileSystemParts
<1>7. QED BY <1>1, <1>2, <1>3, <1>4, <1>5, <1>6, NewPodKeeps DEF K!FileSystem

-----------------------------------------------------------------------------
\* watchForPods.
LEMMA RootParts ==
  ASSUME K8sInv, KPodTypes', ~kRaced => KOnceInv',
         \A p \in Pods : \A k \in K!Copies : kPw'[p][k] = kPw[p][k] \/ (kPw'[p][k] # "no" /\ K!Matches(p)),
         UNCHANGED <<kConf, kPod, kCon, kLogs, kRemoved, kLines, kPq, kRunning, kCw, kCq, kStop, kCur, kFirst, kThen,
                     kTail, kRead, kHand, kConsumer, kShipped, kAgain, kLate, kCloser, kPanicked, kRaced>>
  PROVE K8sInv'
<1>t. KFsTypes /\ KPodTypes /\ KConTypes /\ KLineTypes BY KTypeParts DEF K8sInv
<1>1. K!TypeOK'
  <2>1. KFsTypes' /\ KConTypes' /\ KLineTypes' BY <1>t DEF KFsTypes, KConTypes, KLineTypes
  <2>2. QED BY <2>1, KTypePartsNext
<1>2. KCurInv' /\ KHandInv' /\ KLateInv' BY DEF K8sInv, KCurInv, KHandInv, KLateInv
<1>3. KStartInv'
  <2>1. KStartInv BY DEF K8sInv
  <2>3. \A p \in Pods : \A k \in K!Copies : kPw'[p][k] # "no" => p \notin kConf.ignored BY <2>1 DEF KStartInv, K!Matches
  <2>4. ASSUME NEW w \in K!Watch, kCw[w] # "no" PROVE kPw'[kConf.podOf[w[1]]][w[2]] # "no"
    <3>1. kConf.podOf[w[1]] \in Pods /\ w[2] \in K!Copies
      <4>1. w[1] \in Containers /\ w[2] \in K!Copies BY DEF K!Watch
      <4>2. QED BY <1>t, <4>1, K8sConstants DEF KFsTypes
    <3>2. kPw[kConf.podOf[w[1]]][w[2]] # "no" BY <2>1, <2>4 DEF KStartInv
    <3>3. QED BY <3>1, <3>2
  <2>5. QED BY <2>1, <2>3, <2>4 DEF KStartInv, K!Matches
<1>4. KKeptInv' BY DEF K8sInv, KKeptInv, K!CrashNeedsBareContainer
<1>5. ~kRaced' => KOnceInv' /\ KReadInv' BY DEF K8sInv, KReadInv, Delivered, K!Matches
<1>6. QED BY <1>1, <1>2, <1>3, <1>4, <1>5 DEF K8sInv

LEMMA RootKeeps == K8sInv /\ K!Root => K8sInv'
<1> SUFFICES ASSUME K8sInv, K!Root PROVE K8sInv' OBVIOUS
<1>t. KFsTypes /\ KPodTypes BY KTypeParts DEF K8sInv
<1>f. UNCHANGED <<kConf, kPod, kCon, kLogs, kRemoved, kLines, kPq, kRunning, kCw, kCq, kStop, kCur, kFirst, kThen,
                  kTail, kRead, kHand, kConsumer, kShipped, kAgain, kLate, kCloser, kPanicked, kRaced>>
  BY RootFrame
<1>o. ~kRaced => KOnceInv BY DEF K8sInv
<1>q. \A i \in 1 .. Len(kRootQ) : kRootQ[i] \in Pods BY <1>t DEF KPodTypes
<1>1. CASE K!RootReadDir
  <2>1. kRoot = "init" /\ kRoot' = "loop" /\ UNCHANGED kRootQ BY <1>1 DEF K!RootReadDir
  <2>2. kPw' = [p \in Pods |-> IF kPod[p] = "there" /\ K!Matches(p) THEN [kPw[p] EXCEPT ![1] = "new"] ELSE kPw[p]]
    BY <1>1 DEF K!RootReadDir, K!ExistingPods
  <2>3. ASSUME NEW p \in Pods
        PROVE /\ kPw'[p] \in [K!Copies -> {"no", "new", "added", "loop", "done"}]
              /\ \A k \in K!Copies : kPw'[p][k] = kPw[p][k] \/ (kPw'[p][k] # "no" /\ K!Matches(p) /\ kPod[p] = "there" /\ k = 1)
    <3>1. kPw[p] \in [K!Copies -> {"no", "new", "added", "loop", "done"}] BY <1>t DEF KPodTypes
    <3>2. QED BY <2>2, <3>1 DEF K!Copies
  <2>4. KPodTypes'
    <3>1. kPw' \in [Pods -> [K!Copies -> {"no", "new", "added", "loop", "done"}]] BY <2>2, <2>3
    <3>2. QED BY <1>t, <1>f, <2>1, <3>1 DEF KPodTypes
  <2>5. ~kRaced => KOnceInv'
    <3> SUFFICES ASSUME ~kRaced PROVE KOnceInv' OBVIOUS
    <3>1. kRootQ' = <<>> /\ Len(kRootQ') = 0 BY <1>o, <2>1 DEF KOnceInv
    <3>2. \A p \in Pods : kPw'[p][2] = "no" /\ (kPod[p] = "no" => kPw'[p][1] = "no")
      BY <1>o, <2>3 DEF KOnceInv, K!Copies
    <3>3. QED BY <1>f, <2>1, <3>1, <3>2 DEF KOnceInv
  <2>6. QED BY <1>f, <2>3, <2>4, <2>5, RootParts
<1>2. CASE K!RootEvent
  <2> DEFINE p == Head(kRootQ)
             k == K!FreeCopy(p)
  <2>1. kRoot = "loop" /\ kRoot' = "loop" /\ kRootQ # <<>> /\ kRootQ' = Tail(kRootQ) BY <1>2 DEF K!RootEvent
  <2>2. /\ p \in Pods /\ p = kRootQ[1] /\ 1 \in 1 .. Len(kRootQ) /\ Len(kRootQ) \in Nat
        /\ Tail(kRootQ) \in Seq(Pods) /\ Len(Tail(kRootQ)) = Len(kRootQ) - 1
        /\ \A i \in 1 .. Len(Tail(kRootQ)) : i + 1 \in 1 .. Len(kRootQ) /\ Tail(kRootQ)[i] = kRootQ[i + 1]
    BY <1>t, <2>1, Shorter DEF KPodTypes
  <2>3. k \in K!Copies /\ (kPw[p][1] = "no" => k = 1) BY DEF K!FreeCopy, K!Copies
  <2>4. kPw' = IF K!Matches(p) THEN [kPw EXCEPT ![p][k] = "new"] ELSE kPw BY <1>2 DEF K!RootEvent
  <2> HIDE DEF p, k
  <2>5. \A q \in Pods : \A j \in K!Copies :
          kPw'[q][j] = kPw[q][j] \/ (kPw'[q][j] # "no" /\ K!Matches(q) /\ q = p /\ j = k)
    BY <1>t, <2>2, <2>3, <2>4 DEF KPodTypes
  <2>6. KPodTypes' BY <1>t, <1>f, <2>1, <2>2, <2>3, <2>4 DEF KPodTypes
  <2>7. ~kRaced => KOnceInv'
    <3> SUFFICES ASSUME ~kRaced PROVE KOnceInv' OBVIOUS
    <3>1. KOnceInv BY <1>o
    <3>2. kPod[p] # "no" /\ k = 1 BY <2>2, <2>3, <3>1 DEF KOnceInv
    <3>3. \A q \in Pods : kPw'[q][2] = "no" /\ (kPod[q] = "no" => kPw'[q][1] = "no")
      <4>1. \A q \in Pods : kPw[q][2] = "no" /\ (kPod[q] = "no" => kPw[q][1] = "no") BY <3>1 DEF KOnceInv
      <4>2. 1 \in K!Copies /\ 2 \in K!Copies BY DEF K!Copies
      <4>3. QED BY <2>5, <3>2, <4>1, <4>2
    <3>4. ASSUME NEW i \in 1 .. Len(kRootQ')
          PROVE /\ kPod[kRootQ'[i]] # "no" /\ kPw'[kRootQ'[i]][1] = "no"
                /\ \A j \in 1 .. Len(kRootQ') : kRootQ'[i] = kRootQ'[j] => i = j
      <4>1. i + 1 \in 1 .. Len(kRootQ) /\ kRootQ'[i] = kRootQ[i + 1] /\ i \in Nat /\ i > 0 BY <2>1, <2>2
      <4>2. kPod[kRootQ[i + 1]] # "no" /\ kPw[kRootQ[i + 1]][1] = "no" /\ kRootQ[i + 1] \in Pods
        BY <1>q, <3>1, <4>1 DEF KOnceInv
      <4>3. kRootQ[i + 1] # p
        <5>1. kRootQ[i + 1] = kRootQ[1] => i + 1 = 1 BY <2>2, <3>1, <4>1 DEF KOnceInv
        <5>2. QED BY <2>2, <4>1, <5>1
      <4>4. kPw'[kRootQ[i + 1]][1] = "no" BY <2>5, <4>2, <4>3 DEF K!Copies
      <4>5. ASSUME NEW j \in 1 .. Len(kRootQ'), kRootQ'[i] = kRootQ'[j] PROVE i = j
        <5>1. j + 1 \in 1 .. Len(kRootQ) /\ kRootQ'[j] = kRootQ[j + 1] /\ j \in Nat BY <2>1, <2>2
        <5>2. i + 1 = j + 1 BY <3>1, <4>1, <4>5, <5>1 DEF KOnceInv
        <5>3. QED BY <4>1, <5>1, <5>2
      <4>6. QED BY <4>1, <4>2, <4>4, <4>5
    <3>5. QED BY <1>f, <2>1, <3>3, <3>4 DEF KOnceInv
  <2>8. QED BY <1>f, <2>5, <2>6, <2>7, RootParts
<1>3. CASE K!RootStops
  <2>1. kRoot = "loop" /\ kRoot' = "done" /\ UNCHANGED <<kRootQ, kPw>> BY <1>3 DEF K!RootStops
  <2>2. KPodTypes' BY <1>t, <1>f, <2>1 DEF KPodTypes
  <2>3. ~kRaced => KOnceInv' BY <1>f, <1>o, <2>1 DEF KOnceInv
  <2>4. QED BY <1>f, <2>1, <2>2, <2>3, RootParts
<1>4. QED BY <1>1, <1>2, <1>3 DEF K!Root

-----------------------------------------------------------------------------
\* watchPod.
PodStep(p, k) ==
  /\ kPw[p][k] # "no" /\ kPw'[p][k] # "no"
  /\ \A q \in Pods : \A j \in K!Copies : <<q, j>> # <<p, k>> => kPw'[q][j] = kPw[q][j]
  /\ \A q \in Pods : \A j \in K!Copies : kPq'[q][j] = kPq[q][j] \/ (kPq[q][j] # <<>> /\ kPq'[q][j] = Tail(kPq[q][j]))
  /\ \A w \in K!Watch :
       kCw'[w] = kCw[w] \/ (kCw[w] = "no" /\ kCw'[w] = "new" /\ kConf.podOf[w[1]] = p /\ w[2] = k)
  /\ ~kConf.Removes => ~kPanicked' /\ (kStop' # {} => kCloser # "no")

LEMMA PodParts ==
  ASSUME K8sInv, NEW p \in Pods, NEW k \in K!Copies, PodStep(p, k), KPodTypes', KConTypes',
         UNCHANGED <<kConf, kPod, kCon, kLogs, kRemoved, kLines, kRoot, kRootQ, kCq, kCur, kFirst, kThen,
                     kTail, kRead, kHand, kConsumer, kShipped, kAgain, kLate, kCloser, kRaced>>
  PROVE K8sInv'
<1>t. KFsTypes /\ KPodTypes /\ KConTypes /\ KLineTypes BY KTypeParts DEF K8sInv
<1>w. \A w \in K!Watch : kCw'[w] = kCw[w] \/ (kCw[w] = "no" /\ kCw'[w] = "new") BY DEF PodStep
<1>1. K!TypeOK'
  <2>1. KFsTypes' /\ KLineTypes' BY <1>t DEF KFsTypes, KLineTypes
  <2>2. QED BY <2>1, KTypePartsNext
<1>2. KCurInv' BY <1>w DEF K8sInv, KCurInv
<1>3. KHandInv' BY <1>w DEF K8sInv, KHandInv
<1>4. KLateInv' BY DEF K8sInv, KLateInv
<1>q. \A q \in Pods : \A j \in K!Copies :
        /\ \A i \in 1 .. Len(kPq'[q][j]) : kPq'[q][j][i].op = "create" =>
             kPq'[q][j][i].name \in Containers /\ kConf.podOf[kPq'[q][j][i].name] = q
        /\ ~kConf.Removes => \A i \in 1 .. Len(kPq'[q][j]) : kPq'[q][j][i].op = "create"
  <2> SUFFICES ASSUME NEW q \in Pods, NEW j \in K!Copies
      PROVE /\ \A i \in 1 .. Len(kPq'[q][j]) : kPq'[q][j][i].op = "create" =>
                 kPq'[q][j][i].name \in Containers /\ kConf.podOf[kPq'[q][j][i].name] = q
            /\ ~kConf.Removes => \A i \in 1 .. Len(kPq'[q][j]) : kPq'[q][j][i].op = "create"
    OBVIOUS
  <2> DEFINE s == kPq[q][j]
  <2>1. s \in PodEvents BY <1>t DEF KPodTypes
  <2>2. /\ \A i \in 1 .. Len(s) : s[i].op = "create" => s[i].name \in Containers /\ kConf.podOf[s[i].name] = q
        /\ ~kConf.Removes => \A i \in 1 .. Len(s) : s[i].op = "create"
    BY DEF K8sInv, KStartInv, KKeptInv
  <2>3. s # <<>> => \A i \in 1 .. Len(Tail(s)) : i + 1 \in 1 .. Len(s) /\ Tail(s)[i] = s[i + 1]
    BY <2>1, Shorter DEF PodEvents
  <2>4. kPq'[q][j] = s \/ (s # <<>> /\ kPq'[q][j] = Tail(s)) BY DEF PodStep
  <2> HIDE DEF s
  <2>5. CASE kPq'[q][j] = s BY <2>2, <2>5
  <2>6. CASE s # <<>> /\ kPq'[q][j] = Tail(s)
    <3>1. \A i \in 1 .. Len(kPq'[q][j]) : i + 1 \in 1 .. Len(s) /\ kPq'[q][j][i] = s[i + 1] BY <2>3, <2>6
    <3>2. QED BY <2>2, <3>1
  <2>7. QED BY <2>4, <2>5, <2>6
<1>5. KStartInv'
  <2>1. KStartInv BY DEF K8sInv
  <2>2. \A q \in Pods : \A j \in K!Copies : kPw'[q][j] # "no" <=> kPw[q][j] # "no" BY DEF PodStep
  <2>3. \A w \in K!Watch : w[2] \in K!Copies /\ kConf.podOf[w[1]] \in Pods
    <3>1. \A w \in K!Watch : w[1] \in Containers /\ w[2] \in K!Copies BY DEF K!Watch
    <3>2. QED BY <1>t, <3>1, K8sConstants DEF KFsTypes
  <2>4. \A w \in K!Watch : kCw'[w] # "no" => kPw[kConf.podOf[w[1]]][w[2]] # "no" BY <2>1 DEF KStartInv, PodStep
  <2>5. QED BY <1>q, <2>1, <2>2, <2>3, <2>4 DEF KStartInv, K!Matches
<1>6. KKeptInv'
  <2>1. ~kConf.Removes => K!CrashNeedsBareContainer' BY DEF PodStep, K!CrashNeedsBareContainer
  <2>2. KKeptInv BY DEF K8sInv
  <2>3. QED BY <1>q, <2>1, <2>2 DEF KKeptInv, PodStep
<1>7. ~kRaced' => KOnceInv'
  <2> SUFFICES ASSUME ~kRaced PROVE KOnceInv' OBVIOUS
  <2>1. KOnceInv BY DEF K8sInv
  <2>2. 1 \in K!Copies /\ 2 \in K!Copies /\ K!Copies = {1, 2} BY DEF K!Copies
  <2>3. k = 1 BY <2>1, <2>2 DEF KOnceInv, PodStep
  <2>4. \A q \in Pods : kPw'[q][2] = "no" /\ (kPod[q] = "no" => kPw'[q][1] = "no")
    BY <2>1, <2>2, <2>3 DEF KOnceInv, PodStep
  <2>5. \A i \in 1 .. Len(kRootQ) : kRootQ[i] \in Pods /\ kRootQ[i] # p
    BY <1>t, <2>1, <2>3 DEF KOnceInv, PodStep, KPodTypes
  <2>6. \A i \in 1 .. Len(kRootQ) : kPw'[kRootQ[i]][1] = "no" BY <2>1, <2>2, <2>5 DEF KOnceInv, PodStep
  <2>7. QED BY <2>1, <2>4, <2>6 DEF KOnceInv
<1>8. ~kRaced' => KReadInv' BY DEF K8sInv, KReadInv, Delivered, K!Matches
<1>9. QED BY <1>1, <1>2, <1>3, <1>4, <1>5, <1>6, <1>7, <1>8 DEF K8sInv

\* Containers of the pod are started once per copy.
Starts(p, k) ==
  /\ kCw' \in [K!Watch -> {"no", "new", "added", "loop", "stopping", "done"}]
  /\ \A w \in K!Watch : kCw'[w] = kCw[w] \/ (kCw[w] = "no" /\ kCw'[w] = "new" /\ kConf.podOf[w[1]] = p /\ w[2] = k)

LEMMA StartFacts ==
  ASSUME K8sInv, NEW C \in SUBSET Containers, NEW p, NEW k, \A c \in C : kConf.podOf[c] = p, kCw' = K!Start(C, k)
  PROVE Starts(p, k)
<1>1. KConTypes BY KTypeParts DEF K8sInv
<1>2. QED BY <1>1 DEF K!Start, KConTypes, Starts

LEMMA PodKeeps == ASSUME K8sInv, NEW p \in Pods, NEW k \in K!Copies, K!WatchPod(p, k) PROVE K8sInv'
<1>t. KFsTypes /\ KPodTypes /\ KConTypes /\ KStartInv /\ KKeptInv BY KTypeParts DEF K8sInv
<1>f. UNCHANGED <<kConf, kPod, kCon, kLogs, kRemoved, kLines, kRoot, kRootQ, kCq, kCur, kFirst, kThen,
                  kTail, kRead, kHand, kConsumer, kShipped, kAgain, kLate, kCloser, kRaced>>
  BY PodFrame
<1>a. ~kPanicked /\ kPw[p][k] \notin {"no", "done"}
  BY DEF K!WatchPod, K!PodAdd, K!PodReadDir, K!PodEvent, K!PodStops, K!Alive
<1>k. ~kConf.Removes => (kStop # {} => kCloser # "no") BY <1>t DEF KKeptInv
<1>s. \A c \in kRunning[p][k] : <<c, k>> \in K!Watch BY <1>t DEF KPodTypes, K!Watch
<1>p. kPw[p] \in [K!Copies -> {"no", "new", "added", "loop", "done"}] BY <1>t DEF KPodTypes
<1>1. CASE K!PodAdd(p, k)
  <2>1. /\ \E x \in {"added", "done"} : kPw' = [kPw EXCEPT ![p][k] = x]
        /\ UNCHANGED <<kPq, kRunning, kCw, kStop, kPanicked>>
    BY <1>1 DEF K!PodAdd, K!conVars
  <2>2. PodStep(p, k) BY <1>t, <1>a, <1>k, <2>1 DEF PodStep, KPodTypes
  <2>3. KPodTypes' /\ KConTypes' BY <1>t, <1>f, <2>1 DEF KPodTypes, KConTypes
  <2>4. QED BY <1>f, <2>2, <2>3, PodParts
<1>2. CASE K!PodReadDir(p, k)
  <2> DEFINE C == {c \in Containers : kConf.podOf[c] = p /\ kCon[c] = "there"}
  <2>1. /\ kPw' = [kPw EXCEPT ![p][k] = "loop"] /\ kRunning' = [kRunning EXCEPT ![p][k] = C] /\ kCw' = K!Start(C, k)
        /\ UNCHANGED <<kPq, kStop, kPanicked>>
    BY <1>2 DEF K!PodReadDir
  <2>2. C \in SUBSET Containers /\ \A c \in C : kConf.podOf[c] = p OBVIOUS
  <2> HIDE DEF C
  <2>3. Starts(p, k)
    <3>1. kCw' = K!Start(C, k) BY <2>1
    <3>2. QED BY <2>2, <3>1, StartFacts
  <2>4. PodStep(p, k) BY <1>t, <1>a, <1>k, <2>1, <2>3 DEF PodStep, KPodTypes, Starts
  <2>5. KPodTypes' /\ KConTypes' BY <1>t, <1>f, <2>1, <2>2, <2>3 DEF KPodTypes, KConTypes, Starts
  <2>6. QED BY <1>f, <2>4, <2>5, PodParts
<1>r. ASSUME K!PodReturns(p, k)
      PROVE /\ kPw' = [kPw EXCEPT ![p][k] = "done"] /\ kStop' \subseteq K!Watch
            /\ UNCHANGED <<kRunning, kCw, kPanicked>>
  BY <1>t, <1>s, <1>r DEF K!PodReturns, K!StopRunning, KConTypes
<1>3. CASE K!PodStops(p, k)
  <2>1. K!PodReturns(p, k) /\ kCloser # "no" /\ UNCHANGED kPq BY <1>3 DEF K!PodStops
  <2>2. PodStep(p, k) BY <1>t, <1>a, <1>r, <2>1 DEF PodStep, KPodTypes
  <2>r. kPw' = [kPw EXCEPT ![p][k] = "done"] /\ kStop' \subseteq K!Watch /\ UNCHANGED <<kRunning, kCw, kPanicked, kPq>>
    BY <1>r, <2>1
  <2>3. KPodTypes' BY <1>t, <1>f, <2>r DEF KPodTypes
  <2>c. KConTypes' BY <1>t, <1>f, <2>r DEF KConTypes
  <2>4. QED BY <1>f, <2>2, <2>3, <2>c, PodParts
<1>4. CASE K!PodEvent(p, k)
  <2> DEFINE e == Head(kPq[p][k])
  <2>1. kPq' = [kPq EXCEPT ![p][k] = Tail(@)] /\ kPq[p][k] # <<>> BY <1>4 DEF K!PodEvent
  <2>2. /\ e \in [op : {"create", "remove"}, name : Containers \union {K!None}] /\ Tail(kPq[p][k]) \in PodEvents
        /\ e = kPq[p][k][1] /\ 1 \in 1 .. Len(kPq[p][k])
    <3>1. kPq[p][k] \in PodEvents BY <1>t DEF KPodTypes
    <3>2. QED BY <2>1, <3>1, Shorter DEF PodEvents
  <2>3. /\ e.op = "create" => e.name \in Containers /\ kConf.podOf[e.name] = p
        /\ e.op = "remove" => kConf.Removes
    BY <1>t, <2>2 DEF KStartInv, KKeptInv
  <2>4. \/ e.op = "remove" /\ K!PodReturns(p, k)
        \/ e.op = "remove" /\ K!PodRemove(p, k, e.name)
        \/ e.op = "create" /\ K!PodCreate(p, k, e.name)
    BY <1>4 DEF K!PodEvent
  <2> HIDE DEF e
  <2>5. kPq' \in [Pods -> [K!Copies -> PodEvents]] /\
        \A q \in Pods : \A j \in K!Copies : kPq'[q][j] = kPq[q][j] \/ (kPq[q][j] # <<>> /\ kPq'[q][j] = Tail(kPq[q][j]))
    BY <1>t, <2>1, <2>2 DEF KPodTypes
  <2>6. CASE e.op = "remove" /\ K!PodReturns(p, k)
    <3>1. PodStep(p, k) BY <1>t, <1>a, <1>r, <2>3, <2>5, <2>6 DEF PodStep, KPodTypes
    <3>r. kPw' = [kPw EXCEPT ![p][k] = "done"] /\ kStop' \subseteq K!Watch /\ UNCHANGED <<kRunning, kCw, kPanicked>>
      BY <1>r, <2>6
    <3>2. KPodTypes' BY <1>t, <1>f, <2>5, <3>r DEF KPodTypes
    <3>c. KConTypes' BY <1>t, <1>f, <3>r DEF KConTypes
    <3>3. QED BY <1>f, <3>1, <3>2, <3>c, PodParts
  <2>7. CASE e.op = "remove" /\ K!PodRemove(p, k, e.name)
    <3>1. /\ kPanicked' \in BOOLEAN /\ kStop' \subseteq K!Watch /\ UNCHANGED <<kPw, kCw>>
          /\ kRunning' = [kRunning EXCEPT ![p][k] = @ \ {e.name}]
      BY <1>t, <1>s, <2>7 DEF K!PodRemove, KConTypes
    <3>2. PodStep(p, k) BY <1>t, <1>a, <2>3, <2>5, <2>7, <3>1 DEF PodStep, KPodTypes
    <3>3. KPodTypes' /\ KConTypes' BY <1>t, <1>f, <2>5, <3>1 DEF KPodTypes, KConTypes
    <3>4. QED BY <1>f, <3>2, <3>3, PodParts
  <2>8. CASE e.op = "create" /\ K!PodCreate(p, k, e.name)
    <3>1. /\ UNCHANGED <<kPw, kStop, kPanicked>> /\ kRunning' = [kRunning EXCEPT ![p][k] = @ \union {e.name}]
          /\ kCw' = kCw \/ kCw' = K!Start({e.name}, k)
      BY <2>8 DEF K!PodCreate
    <3>2. {e.name} \in SUBSET Containers /\ \A c \in {e.name} : kConf.podOf[c] = p BY <2>3, <2>8
    <3>3. Starts(p, k)
      <4>1. CASE kCw' = kCw BY <1>t, <4>1 DEF KConTypes, Starts
      <4>2. CASE kCw' = K!Start({e.name}, k) BY <3>2, <4>2, StartFacts
      <4>3. QED BY <3>1, <4>1, <4>2
    <3>4. PodStep(p, k) BY <1>t, <1>a, <1>k, <2>5, <3>1, <3>3 DEF PodStep, KPodTypes, Starts
    <3>5. KPodTypes' /\ KConTypes' BY <1>t, <1>f, <2>5, <3>1, <3>2, <3>3 DEF KPodTypes, KConTypes, Starts
    <3>6. QED BY <1>f, <3>4, <3>5, PodParts
  <2>9. QED BY <2>4, <2>6, <2>7, <2>8
<1>5. QED BY <1>1, <1>2, <1>3, <1>4 DEF K!WatchPod

-----------------------------------------------------------------------------
\* watchContainer.
ContainerStep(w) ==
  /\ kCw[w] # "no" /\ kCw'[w] # "no"
  /\ \A v \in K!Watch : v # w => kCw'[v] = kCw[v] /\ kCur'[v] = kCur[v] /\ kTail'[v] = kTail[v]
  /\ \A v \in K!Watch : kCq'[v] = kCq[v] \/ (kCq[v] # <<>> /\ kCq'[v] = Tail(kCq[v]))
  /\ \A v \in K!Watch : \A l \in K!Logs : kHand'[v][l] = kHand[v][l] \/ kHand'[v][l] = K!NoLine
  /\ kCw'[w] = "stopping" => kCur'[w] # K!None
  /\ \A l \in K!Logs : kTail'[w][l] \in {"open", "ending"} => kCur'[w] = l /\ kCw'[w] \in {"loop", "stopping"}
  /\ ~kConf.Removes /\ kPanicked' => w \in kStop /\ kCur'[w] = K!None /\ kCw'[w] = "loop"

TailTypesNext ==
  /\ kTail' \in [K!Watch -> [K!Logs -> {"no", "open", "ending", "ended"}]]
  /\ kHand' \in [K!Watch -> [K!Logs -> K!Line \union {K!NoLine, K!Done}]]

LEMMA ContainerParts ==
  ASSUME K8sInv, NEW w \in K!Watch, ContainerStep(w), KConTypes', TailTypesNext,
         UNCHANGED <<kConf, kPod, kCon, kLogs, kRemoved, kLines, kRoot, kRootQ, kPw, kPq, kRunning, kStop, kRead, kConsumer,
                     kShipped, kAgain, kLate, kCloser, kRaced>>
  PROVE K8sInv'
<1>t. KFsTypes /\ KPodTypes /\ KConTypes /\ KLineTypes BY KTypeParts DEF K8sInv
<1>n. \A v \in K!Watch : kCw'[v] = "no" <=> kCw[v] = "no" BY DEF ContainerStep
<1>1. K!TypeOK'
  <2>1. KFsTypes' /\ KPodTypes' /\ KLineTypes' BY <1>t DEF KFsTypes, KPodTypes, KLineTypes, TailTypesNext
  <2>2. QED BY <2>1, KTypePartsNext
<1>2. KCurInv' BY DEF K8sInv, KCurInv, ContainerStep
<1>3. KHandInv' BY <1>n DEF K8sInv, KHandInv, ContainerStep
<1>4. KLateInv' BY DEF K8sInv, KLateInv
<1>5. KStartInv' BY <1>n DEF K8sInv, KStartInv, K!Matches
<1>q. ~kConf.Removes => \A v \in K!Watch : \A i \in 1 .. Len(kCq'[v]) : kCq'[v][i].op = "create"
  <2> SUFFICES ASSUME ~kConf.Removes, NEW v \in K!Watch PROVE \A i \in 1 .. Len(kCq'[v]) : kCq'[v][i].op = "create"
    OBVIOUS
  <2> DEFINE s == kCq[v]
  <2>1. s \in LogEvents BY <1>t DEF KConTypes
  <2>2. \A i \in 1 .. Len(s) : s[i].op = "create" BY DEF K8sInv, KKeptInv
  <2>3. s # <<>> => \A i \in 1 .. Len(Tail(s)) : i + 1 \in 1 .. Len(s) /\ Tail(s)[i] = s[i + 1]
    BY <2>1, Shorter DEF LogEvents
  <2>4. kCq'[v] = s \/ (s # <<>> /\ kCq'[v] = Tail(s)) BY DEF ContainerStep
  <2> HIDE DEF s
  <2>5. CASE kCq'[v] = s BY <2>2, <2>5
  <2>6. CASE s # <<>> /\ kCq'[v] = Tail(s)
    <3>1. \A i \in 1 .. Len(kCq'[v]) : i + 1 \in 1 .. Len(s) /\ kCq'[v][i] = s[i + 1] BY <2>3, <2>6
    <3>2. QED BY <2>2, <3>1
  <2>7. QED BY <2>4, <2>5, <2>6
<1>6. KKeptInv'
  <2> SUFFICES ASSUME ~kConf.Removes PROVE KKeptInv' BY DEF KKeptInv
  <2>1. KKeptInv BY DEF K8sInv
  <2>2. kPanicked' => kCloser # "no" /\ \E v \in kStop : kCur'[v] = K!None /\ kCw'[v] = "loop"
    BY <2>1 DEF KKeptInv, ContainerStep
  <2>3. K!CrashNeedsBareContainer' BY <2>2 DEF K!CrashNeedsBareContainer
  <2>4. QED BY <1>q, <2>1, <2>3 DEF KKeptInv
<1>7. ~kRaced' => KOnceInv' BY DEF K8sInv, KOnceInv
<1>8. ~kRaced' => KReadInv'
  <2> SUFFICES ASSUME ~kRaced PROVE KReadInv' OBVIOUS
  <2>1. KReadInv BY DEF K8sInv
  <2>2. \A x \in Delivered : x \in K!Line BY <1>t DEF Delivered, KLineTypes
  <2>3. \A x \in K!Line : <<x[1], 1>> \in K!Watch /\ x[2] \in K!Logs BY DEF K!Line, K!Watch, K!Copies
  <2>4. \A v \in K!Watch : \A l \in K!Logs : kHand'[v][l] = kHand[v][l] \/ kHand'[v][l] = K!NoLine BY DEF ContainerStep
  <2>5. QED BY <2>1, <2>2, <2>3, <2>4 DEF KReadInv, Delivered, K!Matches
<1>9. QED BY <1>1, <1>2, <1>3, <1>4, <1>5, <1>6, <1>7, <1>8 DEF K8sInv

\* A set of logs that is not empty has a newest one.
Less == {ss \in Nat \X Nat : ss[1] < ss[2]}

LEMMA HasNewest ==
  ASSUME NEW T \in SUBSET (1 .. MaxLogs), T # {}, MaxLogs \in Nat
  PROVE \E l \in T : \A m \in T : m <= l
<1> DEFINE D == {MaxLogs - l : l \in T}
<1>1. D \subseteq Nat /\ D # {}
  <2>1. PICK l \in T : TRUE OBVIOUS
  <2>2. MaxLogs - l \in D OBVIOUS
  <2>3. D \subseteq Nat OBVIOUS
  <2>4. QED BY <2>2, <2>3
<1>2. IsWellFoundedOn(Less, Nat) BY NatLessThanWellFounded DEF OpToRel, Less
<1>3. PICK d \in D : \A e \in D : ~ (<<e, d>> \in Less) BY <1>1, <1>2, WFMin
<1>4. PICK l \in T : d = MaxLogs - l OBVIOUS
<1>5. ASSUME NEW m \in T PROVE m <= l
  <2>1. MaxLogs - m \in D OBVIOUS
  <2>2. MaxLogs - m \in Nat /\ d \in Nat /\ ~ (MaxLogs - m < d) BY <1>1, <1>3, <2>1 DEF Less
  <2>3. QED BY <1>4, <2>2
<1>6. QED BY <1>5

LEMMA NewestType ==
  ASSUME KFsTypes, NEW c \in Containers
  PROVE /\ K!There(c) \subseteq K!Logs
        /\ K!Newest(c) \in 0 .. MaxLogs /\ (K!Newest(c) # K!None => K!Newest(c) \in K!There(c))
<1>1. MaxLogs \in Nat /\ kLogs[c] \in 0 .. MaxLogs BY K8sConstants DEF KFsTypes
<1>2. K!There(c) \subseteq 1 .. MaxLogs BY <1>1 DEF K!There
<1>3. K!There(c) # {} => K!Newest(c) \in K!There(c)
  <2>1. K!There(c) # {} => \E l \in K!There(c) : \A m \in K!There(c) : m <= l BY <1>1, <1>2, HasNewest
  <2>2. QED BY <2>1 DEF K!Newest
<1>4. K!There(c) = {} => K!Newest(c) = K!None BY DEF K!Newest
<1>5. QED BY <1>1, <1>2, <1>3, <1>4 DEF K!None, K!Logs

\* TailFile, when no tail of the watcher is open, in a watcher that goes on.
Idle(w) == \A l \in K!Logs : kTail[w][l] \notin {"open", "ending"}
TailsOne(w) ==
  /\ kCur' \in [K!Watch -> 0 .. MaxLogs] /\ TailTypesNext
  /\ \A v \in K!Watch : v # w => kCur'[v] = kCur[v] /\ kTail'[v] = kTail[v]
  /\ \A v \in K!Watch : \A l \in K!Logs : kHand'[v][l] = kHand[v][l] \/ kHand'[v][l] = K!NoLine
  /\ \A l \in K!Logs : kTail'[w][l] \in {"open", "ending"} => kCur'[w] = l

LEMMA TailFileTails ==
  ASSUME K8sInv, NEW w \in K!Watch, NEW l, K!TailFile(w, l), Idle(w)
  PROVE TailsOne(w)
<1>t. KFsTypes /\ KConTypes /\ KLineTypes BY KTypeParts DEF K8sInv
<1>w. w[1] \in Containers BY DEF K!Watch
<1>c. MaxLogs \in Nat BY <1>t, K8sConstants DEF KFsTypes
<1>1. CASE l \in K!There(w[1])
  <2>1. l \in K!Logs /\ l \in 0 .. MaxLogs BY <1>1, <1>t, <1>w, <1>c, NewestType DEF K!Logs
  <2>2. /\ kCur' = [kCur EXCEPT ![w] = l] /\ kTail' = [kTail EXCEPT ![w][l] = "open"]
        /\ kHand' = [kHand EXCEPT ![w][l] = K!NoLine]
    BY <1>1 DEF K!TailFile
  <2>3. kCur' \in [K!Watch -> 0 .. MaxLogs] BY <1>t, <2>1, <2>2 DEF KConTypes
  <2>4. TailTypesNext BY <1>t, <2>1, <2>2 DEF KLineTypes, TailTypesNext
  <2>5. \A v \in K!Watch : \A m \in K!Logs : kHand'[v][m] = kHand[v][m] \/ kHand'[v][m] = K!NoLine
    BY <1>t, <2>1, <2>2 DEF KLineTypes
  <2>6. \A v \in K!Watch : v # w => kCur'[v] = kCur[v] /\ kTail'[v] = kTail[v] BY <1>t, <2>2 DEF KLineTypes, KConTypes
  <2>7. kCur'[w] = l BY <1>t, <2>2 DEF KConTypes
  <2>8. \A m \in K!Logs : m # l => kTail'[w][m] = kTail[w][m] BY <1>t, <2>1, <2>2 DEF KLineTypes
  <2>9. QED BY <2>3, <2>4, <2>5, <2>6, <2>7, <2>8 DEF Idle, TailsOne
<1>2. CASE l \notin K!There(w[1])
  <2>1. kCur' = [kCur EXCEPT ![w] = K!None] /\ UNCHANGED <<kTail, kHand>> BY <1>2 DEF K!TailFile
  <2>2. kCur' \in [K!Watch -> 0 .. MaxLogs] BY <1>t, <1>c, <2>1 DEF KConTypes, K!None
  <2>3. QED BY <1>t, <2>1, <2>2 DEF Idle, TailsOne, KConTypes, KLineTypes, TailTypesNext
<1>3. QED BY <1>1, <1>2

\* StopAtEOF of curFile: the watcher waits for the tail.
LEMMA StopsAtEOF ==
  ASSUME K8sInv, NEW w \in K!Watch, kCw[w] = "loop", NEW n \in K!Return .. MaxLogs, K!StopAtEOF(w, n),
         UNCHANGED <<kCur, kHand>>
  PROVE /\ kCur[w] = K!None => kPanicked' = TRUE /\ UNCHANGED <<kCw, kThen, kTail>>
        /\ kCur[w] # K!None =>
             /\ UNCHANGED kPanicked /\ kCw' = [kCw EXCEPT ![w] = "stopping"] /\ kThen' = [kThen EXCEPT ![w] = n]
             /\ \A v \in K!Watch : v # w => kTail'[v] = kTail[v]
             /\ \A l \in K!Logs : kTail'[w][l] \in {"open", "ending"} => kCur[w] = l
        /\ TailTypesNext
<1>t. KFsTypes /\ KConTypes /\ KLineTypes BY KTypeParts DEF K8sInv
<1>c. MaxLogs \in Nat BY <1>t, K8sConstants DEF KFsTypes
<1>1. CASE kCur[w] = K!None BY <1>1, <1>t DEF K!StopAtEOF, TailTypesNext, KLineTypes
<1>2. CASE kCur[w] # K!None
  <2> DEFINE m == kCur[w]
  <2>1. m \in K!Logs BY <1>2, <1>t, <1>c DEF KConTypes, K!None, K!Logs
  <2>2. /\ UNCHANGED kPanicked /\ kCw' = [kCw EXCEPT ![w] = "stopping"] /\ kThen' = [kThen EXCEPT ![w] = n]
        /\ kTail' = [kTail EXCEPT ![w][m] = IF @ = "open" THEN "ending" ELSE @]
    BY <1>2 DEF K!StopAtEOF
  <2>3. \A l \in K!Logs : kTail[w][l] \in {"open", "ending"} => m = l BY DEF K8sInv, KCurInv
  <2> HIDE DEF m
  <2>4. kTail' \in [K!Watch -> [K!Logs -> {"no", "open", "ending", "ended"}]] BY <1>t, <2>1, <2>2 DEF KLineTypes
  <2>5. \A v \in K!Watch : v # w => kTail'[v] = kTail[v] BY <1>t, <2>2 DEF KLineTypes
  <2>6. \A l \in K!Logs : l # m => kTail'[w][l] = kTail[w][l] BY <1>t, <2>1, <2>2 DEF KLineTypes
  <2>7. \A l \in K!Logs : kTail'[w][l] \in {"open", "ending"} => m = l BY <2>3, <2>6
  <2>8. TailTypesNext BY <1>t, <2>4 DEF TailTypesNext, KLineTypes
  <2>9. QED BY <1>2, <2>2, <2>5, <2>7, <2>8 DEF m
<1>3. QED BY <1>1, <1>2

\* A watcher that waits for its tail, or crashes without one.
LEMMA StopsKeeps ==
  ASSUME K8sInv, NEW w \in K!Watch, K!WatchContainer(w), kCw[w] = "loop", NEW n \in K!Return .. MaxLogs, K!StopAtEOF(w, n),
         UNCHANGED <<kCur, kFirst, kHand>>,
         kCq' \in [K!Watch -> LogEvents],
         \A v \in K!Watch : kCq'[v] = kCq[v] \/ (kCq[v] # <<>> /\ kCq'[v] = Tail(kCq[v])),
         ~kConf.Removes /\ kCur[w] = K!None => w \in kStop
  PROVE K8sInv'
<1>t. KFsTypes /\ KConTypes /\ KLineTypes BY KTypeParts DEF K8sInv
<1>f. UNCHANGED <<kConf, kPod, kCon, kLogs, kRemoved, kLines, kRoot, kRootQ, kPw, kPq, kRunning, kStop, kRead, kConsumer,
                  kShipped, kAgain, kLate, kCloser, kRaced>>
  BY ContainerFrame
<1>c. K8sInv /\ KCurInv BY DEF K8sInv
<1>p. ~kPanicked
  BY DEF K!WatchContainer, K!ContainerAdd, K!ContainerReadDir, K!ContainerEvent, K!ContainerStops, K!StoppedAtEOF, K!Alive
<1>1. /\ kCur[w] = K!None => kPanicked' = TRUE /\ UNCHANGED <<kCw, kThen, kTail>>
      /\ kCur[w] # K!None =>
           /\ UNCHANGED kPanicked /\ kCw' = [kCw EXCEPT ![w] = "stopping"] /\ kThen' = [kThen EXCEPT ![w] = n]
           /\ \A v \in K!Watch : v # w => kTail'[v] = kTail[v]
           /\ \A l \in K!Logs : kTail'[w][l] \in {"open", "ending"} => kCur[w] = l
      /\ TailTypesNext
  BY StopsAtEOF
<1>2. CASE kCur[w] = K!None
  <2>1. kPanicked' = TRUE /\ UNCHANGED <<kCw, kThen, kTail>> BY <1>1, <1>2
  <2>2. ContainerStep(w) BY <1>2, <2>1, <1>c DEF ContainerStep, KCurInv
  <2>3. KConTypes' BY <1>t, <1>f, <2>1 DEF KConTypes
  <2>4. QED BY <1>1, <1>f, <2>2, <2>3, ContainerParts
<1>3. CASE kCur[w] # K!None
  <2>1. /\ UNCHANGED kPanicked /\ kCw' = [kCw EXCEPT ![w] = "stopping"] /\ kThen' = [kThen EXCEPT ![w] = n]
        /\ \A v \in K!Watch : v # w => kTail'[v] = kTail[v]
        /\ \A l \in K!Logs : kTail'[w][l] \in {"open", "ending"} => kCur[w] = l
    BY <1>1, <1>3
  <2>2. kCw'[w] = "stopping" /\ \A v \in K!Watch : v # w => kCw'[v] = kCw[v] BY <2>1, <1>t DEF KConTypes
  <2>3. ContainerStep(w) BY <1>p, <1>3, <2>1, <2>2 DEF ContainerStep
  <2>4. KConTypes' BY <1>t, <1>f, <2>1 DEF KConTypes
  <2>5. QED BY <1>1, <1>f, <2>3, <2>4, ContainerParts
<1>4. QED BY <1>2, <1>3

\* A watcher that goes on, with the tails it had or with one that replaces them.
LEMMA GoesOnKeeps ==
  ASSUME K8sInv, NEW w \in K!Watch, K!WatchContainer(w), kCw[w] \in {"new", "added", "loop", "stopping"},
         NEW to \in {"added", "loop", "done"}, kCw' = [kCw EXCEPT ![w] = to],
         kFirst' \in [K!Watch -> 0 .. MaxLogs], UNCHANGED <<kThen, kPanicked>>,
         kCq' \in [K!Watch -> LogEvents],
         \A v \in K!Watch : kCq'[v] = kCq[v] \/ (kCq[v] # <<>> /\ kCq'[v] = Tail(kCq[v])),
         TailsOne(w), to = "loop" \/ \A l \in K!Logs : kTail'[w][l] \notin {"open", "ending"}
  PROVE K8sInv'
<1>t. KFsTypes /\ KConTypes /\ KLineTypes BY KTypeParts DEF K8sInv
<1>f. UNCHANGED <<kConf, kPod, kCon, kLogs, kRemoved, kLines, kRoot, kRootQ, kPw, kPq, kRunning, kStop, kRead, kConsumer,
                  kShipped, kAgain, kLate, kCloser, kRaced>>
  BY ContainerFrame
<1>p. ~kPanicked
  BY DEF K!WatchContainer, K!ContainerAdd, K!ContainerReadDir, K!ContainerEvent, K!ContainerStops, K!StoppedAtEOF, K!Alive
<1>1. kCw'[w] = to /\ \A v \in K!Watch : v # w => kCw'[v] = kCw[v] BY <1>t DEF KConTypes
<1>2. ContainerStep(w) BY <1>p, <1>1 DEF ContainerStep, TailsOne
<1>3. KConTypes' BY <1>t, <1>f DEF KConTypes, TailsOne
<1>4. QED BY <1>f, <1>2, <1>3, ContainerParts DEF TailsOne

LEMMA SameTails ==
  ASSUME K8sInv, NEW w \in K!Watch, UNCHANGED <<kCur, kTail, kHand>>
  PROVE TailsOne(w)
BY KTypeParts DEF K8sInv, KCurInv, KConTypes, KLineTypes, TailsOne, TailTypesNext

LEMMA ContainerKeeps == ASSUME K8sInv, NEW w \in K!Watch, K!WatchContainer(w) PROVE K8sInv'
<1>t. KFsTypes /\ KConTypes /\ KLineTypes /\ KCurInv /\ KKeptInv BY KTypeParts DEF K8sInv
<1>w. w[1] \in Containers BY DEF K!Watch
<1>c. MaxLogs \in Nat BY <1>t, K8sConstants DEF KFsTypes
<1>n. K!None \in K!Return .. MaxLogs /\ K!Return \in K!Return .. MaxLogs /\ \A n \in 0 .. MaxLogs : n \in K!Return .. MaxLogs
  BY <1>c DEF K!None, K!Return
<1>q. UNCHANGED kCq => /\ kCq' \in [K!Watch -> LogEvents]
                       /\ \A v \in K!Watch : kCq'[v] = kCq[v] \/ (kCq[v] # <<>> /\ kCq'[v] = Tail(kCq[v]))
  BY <1>t DEF KConTypes
<1>1. CASE K!ContainerAdd(w)
  <2>1. UNCHANGED <<kCq, kCur, kFirst, kThen, kTail, kHand, kPanicked>> /\ kCw[w] = "new" BY <1>1 DEF K!ContainerAdd
  <2>2. PICK to \in {"added", "done"} : kCw' = [kCw EXCEPT ![w] = to] BY <1>1 DEF K!ContainerAdd
  <2>3. kFirst' \in [K!Watch -> 0 .. MaxLogs] BY <1>t, <2>1 DEF KConTypes
  <2>4. \A l \in K!Logs : kTail'[w][l] \notin {"open", "ending"} BY <1>t, <2>1 DEF KCurInv
  <2>5. TailsOne(w) BY <2>1, SameTails
  <2>6. QED BY <1>q, <2>1, <2>2, <2>3, <2>4, <2>5, GoesOnKeeps
<1>2. CASE K!ContainerReadDir(w)
  <2>1. UNCHANGED <<kCq, kThen, kPanicked>> /\ kCw[w] = "added" /\ kCw' = [kCw EXCEPT ![w] = "loop"]
    BY <1>2 DEF K!ContainerReadDir
  <2>2. kFirst' \in [K!Watch -> 0 .. MaxLogs]
    <3>1. kFirst' = [kFirst EXCEPT ![w] = K!Newest(w[1])] BY <1>2 DEF K!ContainerReadDir
    <3>2. K!Newest(w[1]) \in 0 .. MaxLogs BY <1>t, <1>w, NewestType
    <3>3. QED BY <1>t, <3>1, <3>2 DEF KConTypes
  <2>3. Idle(w) BY <1>t, <2>1 DEF KCurInv, Idle
  <2>4. TailsOne(w)
    <3>1. UNCHANGED <<kCur, kTail, kHand>> \/ K!TailFile(w, K!Newest(w[1])) BY <1>2 DEF K!ContainerReadDir
    <3>2. QED BY <2>3, <3>1, SameTails, TailFileTails
  <2>5. QED BY <1>q, <2>1, <2>2, <2>4, GoesOnKeeps
<1>3. CASE K!ContainerEvent(w)
  <2> DEFINE e == Head(kCq[w])
  <2>1. /\ kCw[w] = "loop" /\ kCq[w] # <<>> /\ kCq' = [kCq EXCEPT ![w] = Tail(@)] /\ UNCHANGED kFirst
    BY <1>3 DEF K!ContainerEvent
  <2>2. /\ e \in [op : {"create", "remove"}, name : 0 .. MaxLogs] /\ Tail(kCq[w]) \in LogEvents
        /\ e = kCq[w][1] /\ 1 \in 1 .. Len(kCq[w])
    <3>1. kCq[w] \in LogEvents BY <1>t DEF KConTypes
    <3>2. QED BY <2>1, <3>1, Shorter DEF LogEvents
  <2>3. e.op = "remove" => kConf.Removes BY <1>t, <2>2 DEF KKeptInv
  <2>4. K!ContainerRemove(w) \/ K!ContainerKnown(w) \/ K!ContainerFirst(w) \/ K!ContainerCycle(w) BY <1>3 DEF K!ContainerEvent
  <2>n. e.name \in K!Return .. MaxLogs BY <1>n, <2>2
  <2>5. /\ kCq' \in [K!Watch -> LogEvents]
        /\ \A v \in K!Watch : kCq'[v] = kCq[v] \/ (kCq[v] # <<>> /\ kCq'[v] = Tail(kCq[v]))
    BY <1>t, <2>1, <2>2 DEF KConTypes
  <2>f. kFirst' \in [K!Watch -> 0 .. MaxLogs] BY <1>t, <2>1 DEF KConTypes
  <2>s. kCw = [kCw EXCEPT ![w] = "loop"] BY <1>t, <2>1 DEF KConTypes
  <2>6. CASE K!ContainerRemove(w)
    <3>1. K!StopAtEOF(w, K!None) /\ UNCHANGED <<kCur, kHand>> /\ kConf.Removes BY <2>3, <2>6 DEF K!ContainerRemove
    <3>2. QED BY <1>n, <2>1, <2>5, <3>1, StopsKeeps
  <2>7. CASE K!ContainerKnown(w)
    <3>1. UNCHANGED <<kCw, kThen, kTail, kCur, kHand, kPanicked>> BY <2>7 DEF K!ContainerKnown
    <3>2. TailsOne(w) BY <3>1, SameTails
    <3>3. QED BY <2>1, <2>5, <2>f, <2>s, <3>1, <3>2, GoesOnKeeps
  <2>8. CASE K!ContainerFirst(w)
    <3>1. UNCHANGED <<kCw, kThen, kPanicked>> /\ K!TailFile(w, e.name) /\ kCur[w] = K!None BY <2>8 DEF K!ContainerFirst
    <3>2. Idle(w)
      <4>1. K!None \notin K!Logs BY DEF K!None, K!Logs
      <4>2. QED BY <1>t, <3>1, <4>1 DEF KCurInv, Idle
    <3>3. TailsOne(w) BY <3>1, <3>2, TailFileTails
    <3>4. QED BY <2>1, <2>5, <2>f, <2>s, <3>1, <3>3, GoesOnKeeps
  <2>9. CASE K!ContainerCycle(w)
    <3>1. K!StopAtEOF(w, e.name) /\ UNCHANGED <<kCur, kHand>> /\ kCur[w] # K!None BY <2>9 DEF K!ContainerCycle
    <3>2. QED BY <2>n, <2>1, <2>5, <3>1, StopsKeeps
  <2>10. QED BY <2>4, <2>6, <2>7, <2>8, <2>9
<1>4. CASE K!ContainerStops(w)
  <2>1. kCw[w] = "loop" /\ w \in kStop /\ K!StopAtEOF(w, K!Return) /\ UNCHANGED <<kCq, kCur, kFirst, kHand>>
    BY <1>4 DEF K!ContainerStops
  <2>2. QED BY <1>n, <1>q, <2>1, StopsKeeps
<1>5. CASE K!StoppedAtEOF(w)
  <2>1. /\ kCw[w] = "stopping" /\ kTail[w][kCur[w]] = "ended" /\ UNCHANGED <<kCq, kFirst, kThen, kPanicked>>
    BY <1>5 DEF K!StoppedAtEOF
  <2>2. Idle(w) BY <1>t, <2>1 DEF KCurInv, Idle
  <2>3. TailsOne(w)
    <3>1. UNCHANGED <<kCur, kTail, kHand>> \/ K!TailFile(w, kThen[w]) BY <1>5 DEF K!StoppedAtEOF
    <3>2. QED BY <2>2, <3>1, SameTails, TailFileTails
  <2>f. kFirst' \in [K!Watch -> 0 .. MaxLogs] BY <1>t, <2>1 DEF KConTypes
  <2>4. CASE kThen[w] = K!Return
    <3>1. kCw' = [kCw EXCEPT ![w] = "done"] BY <1>5, <2>4 DEF K!StoppedAtEOF
    <3>2. K!Return \notin K!Logs BY DEF K!Return, K!Logs
    <3>3. UNCHANGED kTail BY <1>5, <2>4, <3>2 DEF K!StoppedAtEOF
    <3>4. \A l \in K!Logs : kTail'[w][l] \notin {"open", "ending"} BY <2>2, <3>3 DEF Idle
    <3>5. QED BY <1>q, <2>1, <2>f, <2>3, <3>1, <3>4, GoesOnKeeps
  <2>5. CASE kThen[w] # K!Return
    <3>1. kCw' = [kCw EXCEPT ![w] = "loop"] BY <1>5, <2>5 DEF K!StoppedAtEOF
    <3>2. QED BY <1>q, <2>1, <2>f, <2>3, <3>1, GoesOnKeeps
  <2>6. QED BY <2>4, <2>5
<1>6. QED BY <1>1, <1>2, <1>3, <1>4, <1>5 DEF K!WatchContainer

-----------------------------------------------------------------------------
\* processFile and consumeLogs.
LEMMA LineParts ==
  ASSUME K8sInv, KLineTypes', KCurInv', KHandInv', KLateInv', ~kRaced => KReadInv',
         UNCHANGED <<kConf, kPod, kCon, kLogs, kRemoved, kLines, kRoot, kRootQ, kPw, kPq, kRunning, kCw, kCq, kStop, kCur,
                     kFirst, kThen, kCloser, kPanicked, kRaced>>
  PROVE K8sInv'
<1>1. K!TypeOK'
  <2>1. KFsTypes' /\ KPodTypes' /\ KConTypes' BY KTypeParts DEF K8sInv, KFsTypes, KPodTypes, KConTypes
  <2>2. QED BY <2>1, KTypePartsNext
<1>2. KStartInv' /\ KKeptInv' BY DEF K8sInv, KStartInv, KKeptInv, K!Matches, K!CrashNeedsBareContainer
<1>3. ~kRaced' => KOnceInv' BY DEF K8sInv, KOnceInv
<1>4. QED BY <1>1, <1>2, <1>3 DEF K8sInv

LEMMA NoLineIsNone == K!NoLine \notin K!Line /\ K!Done \notin K!Line /\ K!NoLine # K!Done
BY DEF K!NoLine, K!Done, K!Line

LEMMA LineKeeps == ASSUME K8sInv, NEW w \in K!Watch, NEW l \in K!Logs, K!ProcessFile(w, l) PROVE K8sInv'
<1>t. KFsTypes /\ KPodTypes /\ KConTypes /\ KLineTypes BY KTypeParts DEF K8sInv
<1>f. UNCHANGED <<kConf, kPod, kCon, kLogs, kRemoved, kLines, kRoot, kRootQ, kPw, kPq, kRunning, kCw, kCq, kStop, kCur,
                  kFirst, kThen, kCloser, kPanicked, kRaced>>
  BY LineFrame
<1>c. PodLines \in Nat BY <1>t, K8sConstants DEF KFsTypes
<1>w. w[1] \in Containers /\ w[2] \in K!Copies /\ w = <<w[1], w[2]>> BY DEF K!Watch
<1>i. KCurInv /\ KHandInv /\ KLateInv /\ KStartInv /\ (~kRaced => KOnceInv /\ KReadInv) BY DEF K8sInv
<1>l. \A x \in Delivered : x \in K!Line /\ <<x[1], 1>> \in K!Watch /\ x[2] \in K!Logs /\ x[3] \in Nat
  <2>1. \A x \in K!Line : <<x[1], 1>> \in K!Watch /\ x[2] \in K!Logs /\ x[3] \in Nat BY DEF K!Line, K!Watch, K!Copies
  <2>2. QED BY <1>t, <2>1 DEF Delivered, KLineTypes
<1>r. kRead[w][l] \in 0 .. PodLines /\ kRead[w][l] \in Nat BY <1>t, <1>c DEF KLineTypes
<1>1. CASE K!TailReads(w, l)
  <2> DEFINE n == kRead[w][l] + 1
             h == <<w[1], l, n>>
  <2>1. /\ kTail[w][l] \in {"open", "ending"} /\ kHand[w][l] = K!NoLine /\ kRead[w][l] < kLines[w[1]][l]
        /\ kRead' = [kRead EXCEPT ![w][l] = n] /\ kHand' = [kHand EXCEPT ![w][l] = h]
        /\ UNCHANGED <<kTail, kConsumer, kShipped, kAgain, kLate>>
    BY <1>1 DEF K!TailReads
  <2>2. n \in 1 .. PodLines /\ n = kRead[w][l] + 1 /\ n \in Nat
    <3>1. kLines[w[1]][l] \in 0 .. PodLines BY <1>t, <1>w DEF KFsTypes
    <3>2. QED BY <1>c, <1>r, <2>1, <3>1
  <2>3. h \in K!Line /\ h = <<w[1], l, n>> BY <1>w, <2>2 DEF K!Line
  <2>4. kCw[w] # "no" BY <1>i, <2>1 DEF KCurInv
  <2> HIDE DEF n, h
  <2>5. /\ kRead' \in [K!Watch -> [K!Logs -> 0 .. PodLines]] /\ kRead'[w][l] = n
        /\ \A v \in K!Watch : \A m \in K!Logs : v # w \/ m # l => kRead'[v][m] = kRead[v][m]
    BY <1>t, <1>c, <2>1, <2>2 DEF KLineTypes
  <2>6. /\ kHand' \in [K!Watch -> [K!Logs -> K!Line \union {K!NoLine, K!Done}]] /\ kHand'[w][l] = h
        /\ \A v \in K!Watch : \A m \in K!Logs : v # w \/ m # l => kHand'[v][m] = kHand[v][m]
    BY <1>t, <2>1, <2>3 DEF KLineTypes
  <2>7. KLineTypes' BY <1>t, <1>f, <2>1, <2>5, <2>6 DEF KLineTypes
  <2>8. KCurInv' BY <1>f, <1>i, <2>1 DEF KCurInv
  <2>9. KHandInv'
    <3> SUFFICES ASSUME NEW v \in K!Watch, NEW m \in K!Logs, kHand'[v][m] \notin {K!NoLine, K!Done}
                 PROVE kHand'[v][m] = <<v[1], m, kRead'[v][m]>> /\ kCw'[v] # "no"
      BY DEF KHandInv
    <3>1. CASE v = w /\ m = l BY <1>f, <2>3, <2>4, <2>5, <2>6, <3>1
    <3>2. CASE v # w \/ m # l
      <4>1. kRead'[v][m] = kRead[v][m] /\ kHand'[v][m] = kHand[v][m] /\ kCw' = kCw BY <1>f, <2>5, <2>6, <3>2
      <4>2. QED BY <1>i, <4>1 DEF KHandInv
    <3>3. QED BY <3>1, <3>2
  <2>10. KLateInv' BY <1>f, <1>i, <2>1 DEF KLateInv
  <2>11. ~kRaced => KReadInv'
    <3> SUFFICES ASSUME ~kRaced PROVE KReadInv' OBVIOUS
    <3>1. KReadInv BY <1>i
    <3>2. Delivered' = Delivered BY <2>1 DEF Delivered
    <3>3. ASSUME NEW x \in Delivered
          PROVE /\ x[3] <= kRead'[<<x[1], 1>>][x[2]] /\ K!Matches(kConf.podOf[x[1]])
                /\ kHand'[<<x[1], 1>>][x[2]] \notin {K!NoLine, K!Done} => x[3] < kRead'[<<x[1], 1>>][x[2]]
      <4> DEFINE v == <<x[1], 1>>
                 m == x[2]
      <4>1. v \in K!Watch /\ m \in K!Logs /\ x[3] \in Nat BY <1>l
      <4>2. /\ x[3] <= kRead[v][m] /\ K!Matches(kConf.podOf[x[1]])
            /\ kHand[v][m] \notin {K!NoLine, K!Done} => x[3] < kRead[v][m]
        BY <3>1 DEF KReadInv
      <4> HIDE DEF v, m
      <4>3. CASE v = w /\ m = l
        <5>1. x[3] < n BY <1>r, <2>2, <4>1, <4>2, <4>3
        <5>2. x[3] < kRead'[v][m] /\ x[3] <= kRead'[v][m] BY <2>2, <2>5, <4>1, <4>3, <5>1
        <5>3. QED BY <4>2, <5>2 DEF v, m
      <4>4. CASE v # w \/ m # l
        <5>1. kRead'[v][m] = kRead[v][m] /\ kHand'[v][m] = kHand[v][m] BY <2>5, <2>6, <4>1, <4>4
        <5>2. QED BY <4>2, <5>1 DEF v, m
      <4>5. QED BY <4>3, <4>4
    <3>4. QED BY <1>f, <2>1, <3>1, <3>2, <3>3 DEF KReadInv, K!Matches
  <2>12. QED BY <1>f, <2>7, <2>8, <2>9, <2>10, <2>11, LineParts
\* The other steps read nothing: the hand gives its line away, or ends.
<1>h. ASSUME NEW h \in {K!NoLine, K!Done}, kHand' = [kHand EXCEPT ![w][l] = h]
      PROVE /\ kHand' \in [K!Watch -> [K!Logs -> K!Line \union {K!NoLine, K!Done}]] /\ kHand'[w][l] = h
            /\ \A v \in K!Watch : \A m \in K!Logs : kHand'[v][m] = kHand[v][m] \/ kHand'[v][m] = h
  BY <1>t, <1>h DEF KLineTypes
<1>2. CASE K!TailEnds(w, l)
  <2>1. kTail' = [kTail EXCEPT ![w][l] = "ended"] /\ UNCHANGED <<kRead, kHand, kConsumer, kShipped, kAgain, kLate>>
    BY <1>2 DEF K!TailEnds
  <2>2. KLineTypes' BY <1>t, <1>f, <2>1 DEF KLineTypes
  <2>3. \A v \in K!Watch : \A m \in K!Logs : kTail'[v][m] = kTail[v][m] \/ kTail'[v][m] = "ended" BY <1>t, <2>1 DEF KLineTypes
  <2>4. KCurInv' BY <1>f, <1>i, <2>3 DEF KCurInv
  <2>5. KHandInv' /\ KLateInv' BY <1>f, <1>i, <2>1 DEF KHandInv, KLateInv
  <2>6. ~kRaced => KReadInv' BY <1>f, <1>i, <2>1 DEF KReadInv, Delivered, K!Matches
  <2>7. QED BY <1>f, <2>2, <2>4, <2>5, <2>6, LineParts
<1>3. CASE K!ProcessSends(w, l)
  <2> DEFINE x == kHand[w][l]
  <2>1. /\ kHand[w][l] \notin {K!NoLine, K!Done} /\ kConsumer = K!NoLine /\ kCloser # "closed"
        /\ kConsumer' = x /\ kHand' = [kHand EXCEPT ![w][l] = K!NoLine]
        /\ UNCHANGED <<kTail, kRead, kShipped, kAgain, kLate>>
    BY <1>3 DEF K!ProcessSends, K!Alive
  <2>2. /\ kHand' \in [K!Watch -> [K!Logs -> K!Line \union {K!NoLine, K!Done}]] /\ kHand'[w][l] = K!NoLine
        /\ \A v \in K!Watch : \A m \in K!Logs : kHand'[v][m] = kHand[v][m] \/ kHand'[v][m] = K!NoLine
    BY <1>h, <2>1
  <2>3. x \in K!Line /\ x = <<w[1], l, kRead[w][l]>> /\ kCw[w] # "no" BY <1>t, <1>i, <2>1 DEF KLineTypes, KHandInv
  <2>4. KLineTypes' BY <1>t, <1>f, <2>1, <2>2, <2>3 DEF KLineTypes
  <2>5. KCurInv' BY <1>f, <1>i, <2>1 DEF KCurInv
  <2>6. KHandInv' BY <1>f, <1>i, <2>1, <2>2 DEF KHandInv
  <2>7. KLateInv' BY <1>f, <1>i, <2>1 DEF KLateInv
  <2>8. ~kRaced => KReadInv'
    <3> SUFFICES ASSUME ~kRaced PROVE KReadInv' OBVIOUS
    <3>1. KReadInv /\ KOnceInv BY <1>i
    <3>2. kPw[kConf.podOf[w[1]]][w[2]] # "no" /\ kConf.podOf[w[1]] \in Pods
      BY <1>t, <1>w, <1>i, <2>3, K8sConstants DEF KStartInv, KFsTypes
    <3>3. w[2] = 1 /\ K!Matches(kConf.podOf[w[1]]) BY <1>w, <1>i, <3>1, <3>2 DEF KOnceInv, KStartInv, K!Copies
    <3>4. w = <<x[1], 1>> /\ l = x[2] /\ x[3] = kRead[w][l] BY <1>w, <2>3, <3>3
    <3>5. x \notin kShipped
      <4>1. x \in kShipped => x[3] < kRead[<<x[1], 1>>][x[2]] BY <2>1, <3>1, <3>4 DEF KReadInv, Delivered
      <4>2. QED BY <1>r, <3>4, <4>1
    <3>6. Delivered' \subseteq Delivered \union {x} BY <2>1 DEF Delivered
    <3>7. ASSUME NEW y \in Delivered'
          PROVE /\ y[3] <= kRead[<<y[1], 1>>][y[2]] /\ K!Matches(kConf.podOf[y[1]])
                /\ kHand'[<<y[1], 1>>][y[2]] \notin {K!NoLine, K!Done} => y[3] < kRead[<<y[1], 1>>][y[2]]
      <4>1. CASE y = x
        <5>1. y[3] <= kRead[<<y[1], 1>>][y[2]] BY <1>r, <3>4, <4>1
        <5>2. K!Matches(kConf.podOf[y[1]])
          <6>1. y[1] = w[1] BY <2>3, <4>1
          <6>2. QED BY <3>3, <6>1
        <5>3. kHand'[<<y[1], 1>>][y[2]] = K!NoLine BY <2>2, <3>4, <4>1
        <5>4. QED BY <5>1, <5>2, <5>3
      <4>2. CASE y \in Delivered
        <5>1. <<y[1], 1>> \in K!Watch /\ y[2] \in K!Logs BY <1>l, <4>2
        <5>2. QED BY <2>2, <3>1, <4>2, <5>1 DEF KReadInv
      <4>3. QED BY <3>6, <4>1, <4>2
    <3>8. QED BY <1>f, <2>1, <3>1, <3>5, <3>7 DEF KReadInv, K!Matches
  <2>9. QED BY <1>f, <2>4, <2>5, <2>6, <2>7, <2>8, LineParts
<1>4. CASE K!ProcessEnds(w, l)
  <2>1. kHand' = [kHand EXCEPT ![w][l] = K!Done] /\ UNCHANGED <<kTail, kRead, kConsumer, kShipped, kAgain, kLate>>
    BY <1>4 DEF K!ProcessEnds
  <2>2. /\ kHand' \in [K!Watch -> [K!Logs -> K!Line \union {K!NoLine, K!Done}]]
        /\ \A v \in K!Watch : \A m \in K!Logs : kHand'[v][m] = kHand[v][m] \/ kHand'[v][m] = K!Done
    BY <1>h, <2>1
  <2>3. KLineTypes' BY <1>t, <1>f, <2>1, <2>2 DEF KLineTypes
  <2>4. KCurInv' /\ KLateInv' BY <1>f, <1>i, <2>1 DEF KCurInv, KLateInv
  <2>5. KHandInv' BY <1>f, <1>i, <2>1, <2>2 DEF KHandInv
  <2>6. ~kRaced => KReadInv' BY <1>f, <1>i, <1>l, <2>1, <2>2 DEF KReadInv, Delivered, K!Matches
  <2>7. QED BY <1>f, <2>3, <2>4, <2>5, <2>6, LineParts
<1>5. QED BY <1>1, <1>2, <1>3, <1>4 DEF K!ProcessFile

LEMMA ConsumerKeeps == K8sInv /\ K!Consumer => K8sInv'
<1> SUFFICES ASSUME K8sInv, K!Consumer PROVE K8sInv' OBVIOUS
<1>t. KLineTypes BY KTypeParts DEF K8sInv
<1>f. UNCHANGED <<kConf, kPod, kCon, kLogs, kRemoved, kLines, kRoot, kRootQ, kPw, kPq, kRunning, kCw, kCq, kStop, kCur,
                  kFirst, kThen, kCloser, kPanicked, kRaced>>
  BY LineFrame
<1>u. UNCHANGED <<kTail, kRead, kHand>> BY DEF K!Consumer, K!ConsumerShips, K!ConsumerFails, K!ConsumerEnds
<1>i. KCurInv /\ KHandInv /\ KLateInv /\ (~kRaced => KReadInv) BY DEF K8sInv
<1>1. KCurInv' /\ KHandInv' BY <1>f, <1>i, <1>u DEF KCurInv, KHandInv
<1>n. K!NoLine \notin kShipped /\ K!Done \notin kShipped BY <1>t, NoLineIsNone DEF KLineTypes
<1>2. CASE K!ConsumerShips
  <2>1. kConsumer \in K!Line /\ kConsumer' = K!NoLine BY <1>2, <1>t DEF K!ConsumerShips, KLineTypes
  <2>l. kLate = {} BY <1>2, <1>i DEF K!ConsumerShips, KLateInv
  <2>2. CASE kCloser = "closed"
    <3>1. kLate' = {kConsumer} /\ UNCHANGED <<kShipped, kAgain>> BY <1>2, <2>2, <2>l DEF K!ConsumerShips
    <3>2. KLineTypes' BY <1>t, <1>f, <1>u, <2>1, <3>1 DEF KLineTypes
    <3>3. KLateInv' BY <1>f, <2>1, <2>2, <3>1 DEF KLateInv
    <3>4. ~kRaced => KReadInv' BY <1>f, <1>i, <1>u, <1>n, <2>1, <3>1 DEF KReadInv, Delivered, K!Matches
    <3>5. QED BY <1>f, <1>1, <3>2, <3>3, <3>4, LineParts
  <2>3. CASE kCloser # "closed"
    <3>1. /\ kShipped' = kShipped \union {kConsumer} /\ kAgain' = kAgain \union ({kConsumer} \intersect kShipped)
          /\ UNCHANGED kLate
      BY <1>2, <2>3 DEF K!ConsumerShips
    <3>2. KLineTypes' BY <1>t, <1>f, <1>u, <2>1, <3>1 DEF KLineTypes
    <3>3. KLateInv' BY <2>l, <3>1 DEF KLateInv
    <3>4. ~kRaced => KReadInv'
      <4> SUFFICES ASSUME ~kRaced PROVE KReadInv' OBVIOUS
      <4>1. KReadInv BY <1>i
      <4>2. Delivered' \subseteq Delivered
        <5>1. kConsumer \in Delivered BY <2>1, NoLineIsNone DEF Delivered
        <5>2. QED BY <2>1, <3>1, <5>1 DEF Delivered
      <4>3. kAgain' = {} /\ kConsumer' \notin kShipped'
        <5>1. K!NoLine # kConsumer BY <2>1, NoLineIsNone
        <5>2. QED BY <1>n, <2>1, <3>1, <4>1, <5>1 DEF KReadInv
      <4>4. QED BY <1>f, <1>u, <4>1, <4>2, <4>3 DEF KReadInv, K!Matches
    <3>5. QED BY <1>f, <1>1, <3>2, <3>3, <3>4, LineParts
  <2>4. QED BY <2>2, <2>3
<1>3. CASE K!ConsumerFails \/ K!ConsumerEnds
  <2>1. kConsumer' = K!Done /\ UNCHANGED <<kShipped, kAgain, kLate>> BY <1>3 DEF K!ConsumerFails, K!ConsumerEnds
  <2>2. KLineTypes' BY <1>t, <1>f, <1>u, <2>1 DEF KLineTypes
  <2>3. KLateInv' BY <1>f, <1>i, <2>1 DEF KLateInv
  <2>4. ~kRaced => KReadInv' BY <1>f, <1>i, <1>u, <1>n, <2>1 DEF KReadInv, Delivered, K!Matches
  <2>5. QED BY <1>f, <1>1, <2>2, <2>3, <2>4, LineParts
<1>4. QED BY <1>2, <1>3 DEF K!Consumer

-----------------------------------------------------------------------------
\* Close.
LEMMA K8sCloseKeeps == K8sInv /\ (K!CloseStop \/ K!CloseWait \/ K!CloseClient) => K8sInv'
<1> SUFFICES ASSUME K8sInv, K!CloseStop \/ K!CloseWait \/ K!CloseClient PROVE K8sInv' OBVIOUS
<1>f. UNCHANGED <<kConf, kPod, kCon, kLogs, kRemoved, kLines, kRoot, kRootQ, kPw, kPq, kRunning, kCw, kCq, kStop, kCur,
                  kFirst, kThen, kTail, kRead, kHand, kConsumer, kShipped, kAgain, kLate, kPanicked, kRaced>>
  BY DEF K!CloseStop, K!CloseWait, K!CloseClient, K!LineUnchanged, K!fsVars, K!podVars, K!conVars, K!lineVars
<1>c. ~kPanicked /\ kCloser # "closed" /\ kCloser' \in {"wait", "drain", "closed"}
  BY DEF K!CloseStop, K!CloseWait, K!CloseClient, K!Alive
<1>1. K!TypeOK'
  <2>1. KFsTypes /\ KPodTypes /\ KConTypes /\ KLineTypes BY KTypeParts DEF K8sInv
  <2>2. KFsTypes' /\ KPodTypes' /\ KConTypes' /\ KLineTypes' BY <1>f, <1>c, <2>1 DEF KFsTypes, KPodTypes, KConTypes, KLineTypes
  <2>3. QED BY <2>2, KTypePartsNext
<1>2. KCurInv' /\ KHandInv' /\ KStartInv' BY <1>f DEF K8sInv, KCurInv, KHandInv, KStartInv, K!Matches
<1>3. KLateInv' BY <1>f, <1>c DEF K8sInv, KLateInv
<1>4. KKeptInv' BY <1>f, <1>c DEF K8sInv, KKeptInv, K!CrashNeedsBareContainer
<1>5. ~kRaced' => KOnceInv' /\ KReadInv' BY <1>f DEF K8sInv, KOnceInv, KReadInv, Delivered, K!Matches
<1>6. QED BY <1>1, <1>2, <1>3, <1>4, <1>5 DEF K8sInv

\* A step of the other adapter, or none.
LEMMA K8sStays == K8sInv /\ UNCHANGED k8sVars => K8sInv'
<1> SUFFICES ASSUME K8sInv, UNCHANGED k8sVars PROVE K8sInv' OBVIOUS
<1>f. UNCHANGED <<kConf, kPod, kCon, kLogs, kRemoved, kLines, kRoot, kRootQ, kPw, kPq, kRunning, kCw, kCq, kStop, kCur,
                  kFirst, kThen, kTail, kRead, kHand, kConsumer, kShipped, kAgain, kLate, kCloser, kPanicked, kRaced>>
  BY DEF k8sVars
<1>1. K!TypeOK'
  <2>1. KFsTypes /\ KPodTypes /\ KConTypes /\ KLineTypes BY KTypeParts DEF K8sInv
  <2>2. KFsTypes' /\ KPodTypes' /\ KConTypes' /\ KLineTypes' BY <1>f, <2>1 DEF KFsTypes, KPodTypes, KConTypes, KLineTypes
  <2>3. QED BY <2>2, KTypePartsNext
<1>2. KCurInv' /\ KHandInv' /\ KLateInv' /\ KStartInv' BY <1>f DEF K8sInv, KCurInv, KHandInv, KLateInv, KStartInv, K!Matches
<1>3. KKeptInv' BY <1>f DEF K8sInv, KKeptInv, K!CrashNeedsBareContainer
<1>4. ~kRaced' => KOnceInv' /\ KReadInv' BY <1>f DEF K8sInv, KOnceInv, KReadInv, Delivered, K!Matches
<1>5. QED BY <1>1, <1>2, <1>3, <1>4 DEF K8sInv

LEMMA K8sNext == K8sInv /\ K!Next => K8sInv'
<1> SUFFICES ASSUME K8sInv, K!Next PROVE K8sInv' OBVIOUS
<1>1. CASE K!FileSystem BY <1>1, FileSystemKeeps
<1>2. CASE K!Root BY <1>2, RootKeeps
<1>3. CASE K!Consumer BY <1>3, ConsumerKeeps
<1>4. CASE K!CloseStop \/ K!CloseWait \/ K!CloseClient BY <1>4, K8sCloseKeeps
<1>5. CASE K!Quiet
  <2>1. UNCHANGED k8sVars BY <1>5 DEF K!Quiet, K!vars, K!fsVars, K!podVars, K!conVars, K!lineVars, k8sVars
  <2>2. QED BY <2>1, K8sStays
<1>6. ASSUME NEW p \in Pods, NEW k \in K!Copies, K!WatchPod(p, k) PROVE K8sInv' BY <1>6, PodKeeps
<1>7. ASSUME NEW w \in K!Watch, K!WatchContainer(w) PROVE K8sInv' BY <1>7, ContainerKeeps
<1>8. ASSUME NEW w \in K!Watch, NEW l \in K!Logs, K!ProcessFile(w, l) PROVE K8sInv' BY <1>8, LineKeeps
<1>9. QED BY <1>1, <1>2, <1>3, <1>4, <1>5, <1>6, <1>7, <1>8 DEF K!Next

-----------------------------------------------------------------------------
(***************************************************************************)
(* The two adapters.                                                       *)
(***************************************************************************)
LEMMA AdaptersInvInit == AdaptersInit => AdaptersInv
BY FileInit, K8sInit DEF AdaptersInit, AdaptersInv

LEMMA AdaptersInvNext == AdaptersInv /\ [AdaptersNext]_AdaptersVars => AdaptersInv'
<1> SUFFICES ASSUME AdaptersInv, [AdaptersNext]_AdaptersVars PROVE AdaptersInv' OBVIOUS
<1>0. FileInv /\ K8sInv BY DEF AdaptersInv
<1>1. CASE OfFile(Next)
  <2>1. Next /\ UNCHANGED k8sVars BY <1>1 DEF OfFile
  <2>2. QED BY <1>0, <2>1, FileNext, K8sStays DEF AdaptersInv
<1>2. CASE OfK8s(K!Next)
  <2>1. K!Next /\ UNCHANGED vars BY <1>2 DEF OfK8s
  <2>2. QED BY <1>0, <2>1, FileNext, K8sNext DEF AdaptersInv
<1>3. CASE UNCHANGED AdaptersVars
  <2>1. UNCHANGED vars /\ UNCHANGED k8sVars BY <1>3 DEF AdaptersVars
  <2>2. QED BY <1>0, <2>1, FileNext, K8sStays DEF AdaptersInv
<1>4. QED BY <1>1, <1>2, <1>3 DEF AdaptersNext

LEMMA AdaptersInvAlways == AdaptersSafety => []AdaptersInv
BY AdaptersInvInit, AdaptersInvNext, PTL DEF AdaptersSafety

\* At most one line in a set that is empty or has one element.
LEMMA FewLate == KLateInv => K!AtMostOneLate
<1>1. Cardinality({}) = 0 /\ \A x : Cardinality({x}) = 1 BY FS_EmptySet, FS_Singleton
<1>2. \A S : K!Cardinality(S) = Cardinality(S) BY DEF K!Cardinality, Cardinality
<1>3. KLateInv => kLate = {} \/ \E x : kLate = {x} BY DEF KLateInv
<1>4. ASSUME kLate = {} PROVE Cardinality(kLate) <= 1 BY <1>1, <1>4
<1>5. ASSUME NEW x, kLate = {x} PROVE Cardinality(kLate) <= 1
  <2>1. Cardinality(kLate) = 1 BY <1>1, <1>5
  <2>2. QED BY <2>1
<1>6. QED BY <1>2, <1>3, <1>4, <1>5 DEF K!AtMostOneLate

-----------------------------------------------------------------------------
\* The two adapters are well typed: the watchers, tails, handlers, semaphore and locks of
\* file, the watchers, queues and goroutines of k8s_pods, for every set of files, pods
\* and containers and every number of inodes, logs and lines.
THEOREM TailsTypeCorrect == AdaptersSafety => []TailsTypeOK
<1>1. AdaptersInv => TailsTypeOK BY DEF AdaptersInv, FileInv, K8sInv, TailsTypeOK
<1>2. QED BY <1>1, AdaptersInvAlways, PTL

\* An open tail of file is always the one its file's entry in a.tailFiles names, through
\* rotations, removals, inactivity, reactivation and read errors; with serialize_files
\* one handler reads; and a watchContainer of k8s_pods has one tail that is not ended.
THEOREM TailsListed == AdaptersSafety => []TailsAreListed
<1>1. KCurInv => K!OneTail BY DEF KCurInv, K!OneTail
<1>2. AdaptersInv => TailsAreListed BY <1>1, FeedIsOne DEF AdaptersInv, FileInv, K8sInv, TailsAreListed
<1>3. QED BY <1>2, AdaptersInvAlways, PTL

\* When Close of file has returned, no handler is left that could ship; of k8s_pods at
\* most one line is shipped after its client was closed.
THEOREM LateBounded == AdaptersSafety => []LateIsBounded
<1>1. ClosedInv => NoShipAfterClose BY DEF ClosedInv, NoShipAfterClose
<1>2. AdaptersInv => LateIsBounded BY <1>1, FewLate DEF AdaptersInv, FileInv, K8sInv, LateIsBounded
<1>3. QED BY <1>2, AdaptersInvAlways, PTL

\* file ships no line of an undisturbed file twice, however polls, tails and handlers
\* interleave; k8s_pods none of any log, and none of a pod that is filtered out, unless
\* a directory was created between the Add of a watcher and its ReadDir.
THEOREM ShippedOnceTails == AdaptersSafety => []NoLineTwice
<1>1. StayInv => NoDuplicate BY DEF StayInv, NoDuplicate
<1>2. KReadInv => kAgain = {} /\ \A x \in kShipped : K!Matches(kConf.podOf[x[1]]) BY DEF KReadInv, Delivered
<1>3. (~kRaced => KReadInv) => K!ShippedOnce BY <1>2 DEF K!ShippedOnce
<1>4. AdaptersInv => NoLineTwice BY <1>1, <1>3 DEF AdaptersInv, FileInv, K8sInv, NoLineTwice
<1>5. QED BY <1>4, AdaptersInvAlways, PTL

\* k8s_pods: as long as nothing is removed, the nil *tail.Tail that watchContainer stops
\* without looking is met only when Close stops a container that has no log.
THEOREM CrashNeeds == AdaptersSafety => []CrashNeedsBareContainer
<1>2. K!TypeOK /\ KKeptInv => K!CrashNeedsBareContainer
  <2>1. ~kConf.Removes /\ KKeptInv => K!CrashNeedsBareContainer BY DEF KKeptInv
  <2>2. kConf.Removes => K!CrashNeedsBareContainer BY DEF K!CrashNeedsBareContainer
  <2>3. QED BY <2>1, <2>2
<1>3. AdaptersInv => CrashNeedsBareContainer BY <1>2 DEF AdaptersInv, K8sInv, CrashNeedsBareContainer
<1>4. QED BY <1>3, AdaptersInvAlways, PTL
=============================================================================
