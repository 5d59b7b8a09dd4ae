---------------------------- MODULE ParquetFiles ----------------------------
(***************************************************************************)
(* file/client.go, the Parquet half: pollFiles notices a file, registers a *)
(* tailInfo for it and starts a goroutine that reads, decodes and ships    *)
(* the whole file; later polls react to rotation, in-place rewrites and    *)
(* removal; Close waits for the decodes.  One path is modelled: paths meet *)
(* only in a.mu, the wait groups and the context.                          *)
(***************************************************************************)
EXTENDS Integers, FiniteSets

CONSTANTS
  Inodes,       \* inode numbers the file system may give the path
  MaxVersion,   \* bound: number of times the path's content is written
  Bad,          \* versions that do not decode: torn writes, too large files
  Ids           \* identities of tailInfo objects

None == 0
TextTail == -1   \* a tailInfo of the text path, see TailFiles

ASSUME ParquetAssumption ==
  /\ MaxVersion \in Nat
  /\ Inodes \subseteq Nat \ {0} /\ Ids \subseteq Nat \ {0}

Versions == 1 .. MaxVersion

VARIABLES
  byExtension, \* the path ends in .parquet(.gz), otherwise the PAR1 magic decides
  path,      \* the inode the path names, None when there is no such file
  content,   \* per inode: the version it holds; stands for size and mtime too
  lastVer,   \* number of versions written so far
  mu,        \* a.mu: "free" or "poll"; Close and the decoders hold it for one step
  poll,      \* where pollFiles is
  matched,   \* the glob of this cycle found the path
  fileInode, \* the inode pollFiles has just stat'ed for a new entry
  slot,      \* a.tailFiles[path]: an identity, None or TextTail
  info,      \* per identity: inode, recorded version, parquetDecoding
  dec,       \* per identity: the decode goroutine: pc, opened inode, version read
  closer,    \* where Close is
  orphans,   \* history: decodes whose entry the removal branch has dropped
  shipped    \* history: versions whose rows have been shipped

diskVars == <<byExtension, path, content, lastVer>>
vars == <<byExtension, path, content, lastVer, mu, poll, matched, fileInode, slot, info, dec, closer, orphans, shipped>>

Cancelled == closer # "no"      \* a.ctx.Err() != nil
InFlight(d) == dec[d].pc # "none"
NoInfo == [inode |-> None, ver |-> None, decoding |-> FALSE]
NoDecode == [pc |-> "none", inode |-> None, ver |-> None]

Init ==
  /\ byExtension \in BOOLEAN
  /\ path = None
  /\ content = [i \in Inodes |-> None]
  /\ lastVer = 0
  /\ mu = "free" /\ poll = "top" /\ matched = FALSE /\ fileInode = None
  /\ slot = None
  /\ info = [d \in Ids |-> NoInfo]
  /\ dec = [d \in Ids |-> NoDecode]
  /\ closer = "no"
  /\ orphans = {} /\ shipped = {}

-----------------------------------------------------------------------------
(***************************************************************************)
(* The file system.  An inode that a decoder has open is not reused.       *)
(***************************************************************************)
Opened == {dec[d].inode : d \in {e \in Ids : InFlight(e)}}

RewriteInPlace ==
  /\ path # None /\ lastVer < MaxVersion
  /\ lastVer' = lastVer + 1
  /\ content' = [content EXCEPT ![path] = lastVer + 1]
  /\ UNCHANGED <<byExtension, path, mu, poll, matched, fileInode, slot, info, dec, closer, orphans, shipped>>

CreateOrReplace ==
  /\ lastVer < MaxVersion
  /\ \E i \in Inodes \ (Opened \union {path}) :
       /\ path' = i
       /\ content' = [j \in Inodes |->
            IF j = i THEN lastVer + 1 ELSE IF j \in Opened THEN content[j] ELSE None]
  /\ lastVer' = lastVer + 1
  /\ UNCHANGED <<byExtension, mu, poll, matched, fileInode, slot, info, dec, closer, orphans, shipped>>

\* Bound: a path is removed only while it can still be written again.
Remove ==
  /\ path # None /\ lastVer < MaxVersion
  /\ path' = None
  /\ UNCHANGED <<byExtension, content, lastVer, mu, poll, matched, fileInode, slot, info, dec, closer, orphans, shipped>>

-----------------------------------------------------------------------------
(***************************************************************************)
(* pollFiles.                                                              *)
(***************************************************************************)
\* Mutant: the loop does not look at the context.
PollTopBlind ==
  /\ poll = "top"
  /\ poll' = "lock" /\ matched' = (path # None)
  /\ UNCHANGED <<diskVars, mu, fileInode, slot, info, dec, closer, orphans, shipped>>

PollTop ==
  /\ poll = "top"
  /\ IF Cancelled
     THEN poll' = "exited" /\ UNCHANGED matched
     ELSE poll' = "lock" /\ matched' = (path # None)
  /\ UNCHANGED <<diskVars, mu, fileInode, slot, info, dec, closer, orphans, shipped>>

\* Bound: a cycle only starts while an identity is left for a new decode.
PollLock ==
  /\ poll = "lock" /\ mu = "free"
  /\ \E d \in Ids : ~InFlight(d)
  /\ mu' = "poll" /\ poll' = "check"
  /\ UNCHANGED <<diskVars, matched, fileInode, slot, info, dec, closer, orphans, shipped>>

\* Rotated, or rewritten in place, since the finished decode read it.
ChangedOnDisk(d) ==
  ~info[d].decoding /\ (path # info[d].inode \/ content[path] # info[d].ver)

\* The loop over a.tailFiles: stat and drop.
PollCheck ==
  /\ poll = "check"
  /\ poll' = "new"
  /\ \/ /\ slot = None
        /\ UNCHANGED <<slot, orphans>>
     \/ /\ slot \in Ids /\ path # None
        /\ slot' = IF ChangedOnDisk(slot) THEN None ELSE slot
        /\ UNCHANGED orphans
     \/ /\ slot \in Ids /\ path = None
        /\ slot' = None
        /\ orphans' = IF info[slot].decoding THEN orphans \union {slot} ELSE orphans
     \/ /\ slot = TextTail   \* the tail follows the inode it has opened
        /\ slot' \in IF path = None THEN {None} ELSE {TextTail, None}
        /\ UNCHANGED orphans
  /\ UNCHANGED <<diskVars, mu, matched, fileInode, info, dec, closer, shipped>>

SkipMatch == Cancelled \/ ~matched \/ slot # None \/ path = None

\* The loop over the matches: stat of a path without an entry.
PollNew ==
  /\ poll = "new"
  /\ \/ SkipMatch /\ poll' = "sleep" /\ mu' = "free" /\ UNCHANGED fileInode
     \/ ~SkipMatch /\ poll' = "detect" /\ fileInode' = path /\ UNCHANGED mu
  /\ UNCHANGED <<diskVars, matched, slot, info, dec, closer, orphans, shipped>>

\* Without the extension a file counts as Parquet once its header and trailer are
\* there; the extension is not looked up on disk.
Detected == byExtension \/ (path # None /\ content[path] \notin Bad)

\* Mutant: an early return leaves a.mu locked.
PollDetectKeepsLock ==
  /\ poll = "detect"
  /\ slot' = None /\ poll' = "sleep" /\ fileInode' = None
  /\ UNCHANGED <<diskVars, mu, matched, info, dec, closer, orphans, shipped>>

\* detectParquetFile, then a new tailInfo with its decode, or a text tail
\* (MustExist).  The new identity is the least unused one.
PollDetect ==
  /\ poll = "detect"
  /\ \/ /\ Detected
        /\ \E d \in Ids :
             /\ ~InFlight(d) /\ \A e \in Ids : ~InFlight(e) => d <= e
             /\ slot' = d
             /\ info' = [info EXCEPT ![d] = [inode |-> fileInode, ver |-> None, decoding |-> TRUE]]
             /\ dec' = [dec EXCEPT ![d].pc = "open"]
     \/ /\ ~Detected
        /\ slot' = IF path = None THEN None ELSE TextTail
        /\ UNCHANGED <<info, dec>>
  /\ poll' = "sleep" /\ mu' = "free" /\ fileInode' = None
  /\ UNCHANGED <<diskVars, matched, closer, orphans, shipped>>

\* select between the polling interval and ctx.Done(), which may both be ready.
PollSleep ==
  /\ poll = "sleep"
  /\ \/ poll' = "top"
     \/ Cancelled /\ poll' = "exited"
  /\ UNCHANGED <<diskVars, mu, matched, fileInode, slot, info, dec, closer, orphans, shipped>>

-----------------------------------------------------------------------------
(***************************************************************************)
(* processParquetFile.                                                     *)
(***************************************************************************)
\* readParquetBytes: open and f.Stat; ver is the stat, taken before the read.
DecodeOpen(d) ==
  /\ dec[d].pc = "open"
  /\ dec' = [dec EXCEPT ![d] =
       IF path = None THEN [@ EXCEPT !.pc = "drop"]
       ELSE [pc |-> "read", inode |-> path, ver |-> content[path]]]
  /\ UNCHANGED <<diskVars, mu, poll, matched, fileInode, slot, info, closer, orphans, shipped>>

\* Mutant: the stat is taken after the read has returned older bytes.
DecodeReadLateStat(d) ==
  /\ dec[d].pc = "read"
  /\ info' = [info EXCEPT ![d].ver = content[dec[d].inode]]
  /\ dec' = [dec EXCEPT ![d].pc = IF dec[d].ver \in Bad THEN "drop" ELSE "ship", ![d].inode = None]
  /\ UNCHANGED <<diskVars, mu, poll, matched, fileInode, slot, closer, orphans, shipped>>

\* The bytes, the recorded stat, and the decode.  A rewrite in between makes the
\* bytes newer than the stat.
DecodeRead(d) ==
  /\ dec[d].pc = "read"
  /\ LET bytes == content[dec[d].inode] IN
       /\ info' = [info EXCEPT ![d].ver = dec[d].ver]
       /\ dec' = [dec EXCEPT ![d] = IF bytes \in Bad THEN [NoDecode EXCEPT !.pc = "drop"]
                                    ELSE [pc |-> "ship", inode |-> None, ver |-> bytes]]
  /\ UNCHANGED <<diskVars, mu, poll, matched, fileInode, slot, closer, orphans, shipped>>

\* handleLine for every row; Ship errors are only reported.
DecodeShip(d) ==
  /\ dec[d].pc = "ship"
  /\ shipped' = shipped \union {dec[d].ver}
  /\ dec' = [dec EXCEPT ![d] = [NoDecode EXCEPT !.pc = "end"]]
  /\ UNCHANGED <<diskVars, mu, poll, matched, fileInode, slot, info, closer, orphans>>

\* Mutant: the entry is removed whoever it belongs to.
DropAnyEntry(d) ==
  /\ dec[d].pc = "drop"
  /\ mu = "free"
  /\ slot' = None
  /\ dec' = [dec EXCEPT ![d].pc = "end"]
  /\ UNCHANGED <<diskVars, mu, poll, matched, fileInode, info, closer, orphans, shipped>>

dropTailEntryIfMatch(d) ==
  /\ dec[d].pc = "drop"
  /\ mu = "free"
  /\ slot' = IF slot = d THEN None ELSE slot
  /\ dec' = [dec EXCEPT ![d].pc = "end"]
  /\ UNCHANGED <<diskVars, mu, poll, matched, fileInode, info, closer, orphans, shipped>>

\* The deferred parquetDecoding.Store(false) and parquetWg.Done(); a tailInfo that
\* is no longer in the map is garbage.
DecodeEnd(d) ==
  /\ dec[d].pc = "end"
  /\ info' = [info EXCEPT ![d] = IF slot = d THEN [@ EXCEPT !.decoding = FALSE] ELSE NoInfo]
  /\ dec' = [dec EXCEPT ![d] = NoDecode]
  /\ orphans' = orphans \ {d}
  /\ UNCHANGED <<diskVars, mu, poll, matched, fileInode, slot, closer, shipped>>

-----------------------------------------------------------------------------
(***************************************************************************)
(* Close.                                                                  *)
(***************************************************************************)
CloseCancel ==
  /\ closer = "no"
  /\ closer' = "cancelled"
  /\ UNCHANGED <<diskVars, mu, poll, matched, fileInode, slot, info, dec, orphans, shipped>>

CloseLock ==
  /\ closer = "cancelled" /\ mu = "free"
  /\ closer' = "parquetWg"
  /\ UNCHANGED <<diskVars, mu, poll, matched, fileInode, slot, info, dec, orphans, shipped>>

CloseWaitParquet ==
  /\ closer = "parquetWg"
  /\ \A d \in Ids : ~InFlight(d)
  /\ closer' = "wg"
  /\ UNCHANGED <<diskVars, mu, poll, matched, fileInode, slot, info, dec, orphans, shipped>>

\* Drain and Close of the client follow the waits.
CloseWaitPoll ==
  /\ closer = "wg" /\ poll = "exited"
  /\ closer' = "closed"
  /\ UNCHANGED <<diskVars, mu, poll, matched, fileInode, slot, info, dec, orphans, shipped>>

Terminated == closer = "closed" /\ UNCHANGED vars

Poll == PollTop \/ PollLock \/ PollCheck \/ PollNew \/ PollDetect \/ PollSleep
Decode(d) ==
  DecodeOpen(d) \/ DecodeRead(d) \/ DecodeShip(d) \/ dropTailEntryIfMatch(d) \/ DecodeEnd(d)
Closing == CloseLock \/ CloseWaitParquet \/ CloseWaitPoll
Disk == RewriteInPlace \/ CreateOrReplace \/ Remove

Next ==
  \/ Disk \/ Poll \/ CloseCancel \/ Closing \/ Terminated
  \/ \E d \in Ids : Decode(d)

\* The poll loop, the decodes and Close are scheduled; a.mu is a Go mutex, which
\* does not starve a waiter for ever.
Fairness ==
  /\ WF_vars(Poll)
  /\ SF_vars(PollLock)
  /\ \A d \in Ids : WF_vars(Decode(d)) /\ SF_vars(dropTailEntryIfMatch(d))
  /\ WF_vars(Closing) /\ SF_vars(CloseLock)

Spec == Init /\ [][Next]_vars
FairSpec == Spec /\ Fairness

-----------------------------------------------------------------------------
(***************************************************************************)
(* Properties.                                                             *)
(***************************************************************************)

\* Type correctness.
TypeOK ==
  /\ byExtension \in BOOLEAN
  /\ path \in Inodes \union {None}
  /\ content \in [Inodes -> Versions \union {None}]
  /\ lastVer \in 0 .. MaxVersion
  /\ mu \in {"free", "poll"}
  /\ (mu = "poll") <=> (poll \in {"check", "new", "detect"})
  /\ poll \in {"top", "lock", "check", "new", "detect", "sleep", "exited"}
  /\ matched \in BOOLEAN /\ fileInode \in Inodes \union {None}
  /\ slot \in Ids \union {None, TextTail}
  /\ info \in [Ids -> [inode : Inodes \union {None}, ver : Versions \union {None}, decoding : BOOLEAN]]
  /\ dec \in [Ids -> [pc : {"none", "open", "read", "ship", "drop", "end"},
                      inode : Inodes \union {None}, ver : Versions \union {None}]]
  /\ closer \in {"no", "cancelled", "parquetWg", "wg", "closed"}
  /\ orphans \subseteq Ids /\ shipped \subseteq Versions

\* Every decode that is under way owns the path's entry, unless the file was
\* removed meanwhile: a failing decode never clobbers the entry of a later one
\* (the identity check of dropTailEntryIfMatch), and a poll never drops an entry
\* whose decode is running because the file has changed.
DecodeOwnsEntry ==
  \A d \in Ids : InFlight(d) /\ d \notin orphans => slot = d \/ dec[d].pc = "end"

\* "two decode goroutines shipping the same file's rows" never happens, unless
\* the file of one of them was removed under it.
NoDoubleDecode ==
  \A d, e \in Ids :
    d # e /\ dec[d].pc = "ship" /\ dec[e].pc = "ship" /\ dec[d].ver = dec[e].ver =>
      {d, e} \cap orphans # {}

\* Close has waited for everybody who can ship: once it goes on to close the
\* client, no decode is under way and none is started any more.
NoShipAfterClose == closer \in {"wg", "closed"} => \A d \in Ids : ~InFlight(d)

\* A decode belongs to one entry and to one version: while it is under way it owns the
\* path's entry, no other ships the same version, and Close goes on to close the client
\* only when none is left.
DecodesAreOwned == DecodeOwnsEntry /\ NoDoubleDecode /\ NoShipAfterClose

\* Close returns.
CloseReturns == closer = "cancelled" ~> closer = "closed"

\* No version is missed: one that decodes and stays on disk is shipped, however
\* the writes before it interleaved with polls and decodes.  (Without the extension
\* a half-written file may have been taken for text.)
StableVersionShipped ==
  \A w \in Versions \ Bad :
    byExtension /\ <>[](path # None /\ content[path] = w /\ closer = "no") => <>(w \in shipped)
=============================================================================
