------------------------- MODULE ParquetFilesProofs -------------------------
(***************************************************************************)
(* Every Parquet decode owns its entry, for every number of versions,      *)
(* inodes and decodes, and whichever versions do not decode.               *)
(***************************************************************************)
EXTENDS ParquetFiles, TLAPS

Info == [inode : Inodes \union {None}, ver : Versions \union {None}, decoding : BOOLEAN]

DecodeState ==
  [pc : {"none", "open", "read", "ship", "drop", "end"}, inode : Inodes \union {None}, ver : Versions \union {None}]

\* What is on disk under the path, or open in a decode, has a content, and so has what
\* is about to be shipped.
DiskInv ==
  /\ path # None => content[path] \in Versions
  /\ \A d \in Ids : dec[d].pc = "read" => dec[d].inode \in Inodes /\ content[dec[d].inode] \in Versions
  /\ \A d \in Ids : dec[d].pc = "ship" => dec[d].ver \in Versions

\* parquetDecoding is up exactly while the decode is under way, for its entry's fate
\* is decided by it.
DecodingInv == \A d \in Ids : info[d].decoding <=> InFlight(d)

\* pollFiles adds an entry only where it has seen none, under the lock, and not once
\* Close has had the lock.
EntryInv ==
  /\ poll = "detect" => slot = None
  /\ closer \in {"parquetWg", "wg", "closed"} => poll # "detect"

ParquetInv == TypeOK /\ DiskInv /\ DecodingInv /\ EntryInv /\ DecodeOwnsEntry /\ NoShipAfterClose

\* NewFileAdapter establishes the invariant.
LEMMA ParquetInit == Init => ParquetInv
<1> SUFFICES ASSUME Init PROVE ParquetInv OBVIOUS
<1> USE ParquetAssumption
<1>1. dec \in [Ids -> DecodeState] /\ \A d \in Ids : dec[d] = NoDecode
  BY DEF Init, DecodeState, NoDecode, None
<1>2. info \in [Ids -> Info] /\ \A d \in Ids : info[d] = NoInfo
  BY DEF Init, Info, NoInfo, None
<1>3. \A d \in Ids : ~InFlight(d) /\ ~info[d].decoding /\ dec[d].pc = "none"
  BY <1>1, <1>2 DEF InFlight, NoDecode, NoInfo
<1>4. byExtension \in BOOLEAN /\ matched \in BOOLEAN /\ (mu = "poll" <=> poll \in {"check", "new", "detect"})
  <2>1. mu # "poll" /\ poll \notin {"check", "new", "detect"} BY DEF Init
  <2>2. byExtension \in BOOLEAN /\ matched \in BOOLEAN BY Zenon DEF Init
  <2>3. QED BY <2>1, <2>2, Zenon
<1>5. TypeOK
  BY <1>1, <1>2, <1>4 DEF Init, TypeOK, Info, DecodeState, None
<1>6. DecodingInv BY <1>2, <1>3 DEF DecodingInv, NoInfo
<1>7. DiskInv /\ EntryInv /\ DecodeOwnsEntry /\ NoShipAfterClose
  BY <1>3 DEF Init, DiskInv, EntryInv, DecodeOwnsEntry, NoShipAfterClose
<1>8. QED BY <1>5, <1>6, <1>7 DEF ParquetInv

\* Writes, replacements and removals of the file.
LEMMA DiskStep == ASSUME ParquetInv, Disk PROVE ParquetInv'
<1> USE ParquetAssumption
<1>t. TypeOK /\ DiskInv BY DEF ParquetInv
<1>1. /\ UNCHANGED <<byExtension, mu, poll, matched, fileInode, slot, info, dec, closer, orphans, shipped>>
      /\ lastVer < MaxVersion
  BY DEF Disk, RewriteInPlace, CreateOrReplace, Remove
<1>v. lastVer + 1 \in Versions /\ None \notin Inodes /\ None \notin Versions /\ lastVer + 1 \in 0 .. MaxVersion
  BY <1>1, <1>t DEF TypeOK, Versions, None
<1>2. /\ path' \in Inodes \union {None} /\ lastVer' \in 0 .. MaxVersion
      /\ content' \in [Inodes -> Versions \union {None}]
      /\ path' # None => content'[path'] \in Versions
      /\ \A i \in Opened : i \in Inodes /\ content[i] \in Versions => content'[i] \in Versions
  <2>1. CASE RewriteInPlace
    BY <2>1, <1>v, <1>t DEF RewriteInPlace, TypeOK, DiskInv
  <2>2. CASE CreateOrReplace
    <3>1. PICK i \in Inodes \ (Opened \union {path}) :
            /\ path' = i
            /\ content' = [j \in Inodes |-> IF j = i THEN lastVer + 1 ELSE IF j \in Opened THEN content[j] ELSE None]
      BY <2>2 DEF CreateOrReplace
    <3>2. content' \in [Inodes -> Versions \union {None}] BY <3>1, <1>v, <1>t DEF TypeOK
    <3>3. content'[path'] \in Versions /\ \A j \in Inodes : j \in Opened => content'[j] = content[j]
      BY <3>1, <1>v
    <3>4. lastVer' = lastVer + 1 BY <2>2 DEF CreateOrReplace
    <3>5. QED BY <3>1, <3>2, <3>3, <3>4, <1>v
  <2>3. CASE Remove
    BY <2>3, <1>t DEF Remove, TypeOK
  <2>4. QED BY <2>1, <2>2, <2>3 DEF Disk
<1>3. TypeOK' BY <1>1, <1>2, <1>t DEF TypeOK
<1>4. DiskInv'
  <2>1. \A d \in Ids : dec[d].pc = "read" => dec[d].inode \in Opened BY DEF Opened, InFlight
  <2>2. QED BY <1>1, <1>2, <1>t, <2>1 DEF DiskInv
<1>5. DecodingInv' /\ EntryInv' /\ DecodeOwnsEntry' /\ NoShipAfterClose'
  BY <1>1 DEF ParquetInv, DecodingInv, EntryInv, DecodeOwnsEntry, NoShipAfterClose, InFlight
<1>6. QED BY <1>3, <1>4, <1>5 DEF ParquetInv

\* pollFiles: an entry is dropped only when its decode is over or its file is gone, and
\* added only where there is none.
LEMMA PollStep == ASSUME ParquetInv, Poll PROVE ParquetInv'
<1> USE ParquetAssumption
<1>t. TypeOK /\ DiskInv BY DEF ParquetInv
<1>1. CASE PollTop
  <2>1. matched' \in BOOLEAN /\ poll = "top" /\ poll' \in {"exited", "lock"}
    BY <1>1, <1>t DEF PollTop, TypeOK
  <2>2. UNCHANGED <<byExtension, path, content, lastVer, mu, fileInode, slot, info, dec, closer, orphans, shipped>>
    BY <1>1 DEF PollTop, diskVars
  <2>3. QED
    BY <2>1, <2>2, <1>t DEF ParquetInv, TypeOK, DiskInv, DecodingInv, EntryInv, DecodeOwnsEntry, NoShipAfterClose, InFlight
<1>2. CASE PollLock
  <2>1. UNCHANGED <<byExtension, path, content, lastVer, matched, fileInode, slot, info, dec, closer, orphans, shipped>>
    BY <1>2 DEF PollLock, diskVars
  <2>2. mu' = "poll" /\ poll' = "check" BY <1>2 DEF PollLock
  <2>3. QED
    BY <2>1, <2>2, <1>t DEF ParquetInv, TypeOK, DiskInv, DecodingInv, EntryInv, DecodeOwnsEntry, NoShipAfterClose, InFlight
<1>3. CASE PollCheck
  <2>1. UNCHANGED <<byExtension, path, content, lastVer, mu, matched, fileInode, info, dec, closer, shipped>>
    BY <1>3 DEF PollCheck, diskVars
  <2>2. poll = "check" /\ poll' = "new" BY <1>3 DEF PollCheck
  <2>3. /\ slot' \in Ids \union {None, TextTail} /\ orphans' \subseteq Ids
        /\ orphans \subseteq orphans'
        /\ slot \in Ids /\ slot' # slot => slot \in orphans' \/ ~InFlight(slot)
    <3>1. CASE slot = None \/ slot = TextTail
      <4>1. slot \notin Ids BY <3>1 DEF None, TextTail
      <4>2. QED BY <1>3, <3>1, <4>1, <1>t DEF PollCheck, TypeOK
    <3>2. CASE slot \in Ids /\ path # None
      <4>1. slot # None /\ slot # TextTail BY <3>2 DEF None, TextTail
      <4>2. slot' = (IF ChangedOnDisk(slot) THEN None ELSE slot) /\ orphans' = orphans
        BY <1>3, <3>2, <4>1 DEF PollCheck
      <4>3. ChangedOnDisk(slot) => ~InFlight(slot) BY <3>2 DEF ChangedOnDisk, ParquetInv, DecodingInv
      <4>4. QED BY <3>2, <4>2, <4>3, <1>t DEF TypeOK
    <3>3. CASE slot \in Ids /\ path = None
      <4>1. slot # None /\ slot # TextTail BY <3>3 DEF None, TextTail
      <4>2. slot' = None /\ orphans' = IF info[slot].decoding THEN orphans \union {slot} ELSE orphans
        BY <1>3, <3>3, <4>1 DEF PollCheck
      <4>3. QED BY <3>3, <4>2, <1>t DEF ParquetInv, DecodingInv, TypeOK
    <3>4. QED BY <3>1, <3>2, <3>3, <1>t DEF TypeOK
  <2>4. TypeOK' BY <2>1, <2>2, <2>3, <1>t DEF TypeOK
  <2>5. DiskInv' /\ DecodingInv' /\ EntryInv' /\ NoShipAfterClose'
    BY <2>1, <2>2 DEF ParquetInv, DiskInv, DecodingInv, EntryInv, NoShipAfterClose, InFlight
  <2>6. DecodeOwnsEntry' BY <2>1, <2>3 DEF ParquetInv, DecodeOwnsEntry, InFlight
  <2>7. QED BY <2>4, <2>5, <2>6 DEF ParquetInv
<1>4. CASE PollNew
  <2>1. UNCHANGED <<byExtension, path, content, lastVer, matched, slot, info, dec, closer, orphans, shipped>>
    BY <1>4 DEF PollNew, diskVars
  <2>2. \/ poll' = "sleep" /\ mu' = "free" /\ fileInode' = fileInode
        \/ ~SkipMatch /\ poll' = "detect" /\ fileInode' = path /\ mu' = mu
    BY <1>4 DEF PollNew
  <2>3. poll = "new" BY <1>4 DEF PollNew
  <2>4. TypeOK' BY <2>1, <2>2, <2>3, <1>t DEF TypeOK
  <2>5. EntryInv' BY <2>1, <2>2 DEF EntryInv, SkipMatch, Cancelled
  <2>6. DiskInv' /\ DecodingInv' /\ DecodeOwnsEntry' /\ NoShipAfterClose'
    BY <2>1 DEF ParquetInv, DiskInv, DecodingInv, DecodeOwnsEntry, NoShipAfterClose, InFlight
  <2>7. QED BY <2>4, <2>5, <2>6 DEF ParquetInv
<1>5. CASE PollDetect
  <2>1. UNCHANGED <<byExtension, path, content, lastVer, matched, closer, orphans, shipped>>
    BY <1>5 DEF PollDetect, diskVars
  <2>2. poll = "detect" /\ poll' = "sleep" /\ mu' = "free" /\ fileInode' = None BY <1>5 DEF PollDetect
  <2>3. slot = None /\ closer \notin {"parquetWg", "wg", "closed"} BY <2>2 DEF ParquetInv, EntryInv
  <2>4. CASE \E d \in Ids : /\ ~InFlight(d) /\ slot' = d
                            /\ info' = [info EXCEPT ![d] = [inode |-> fileInode, ver |-> None, decoding |-> TRUE]]
                            /\ dec' = [dec EXCEPT ![d].pc = "open"]
    <3>1. PICK d \in Ids : /\ ~InFlight(d) /\ slot' = d
                           /\ info' = [info EXCEPT ![d] = [inode |-> fileInode, ver |-> None, decoding |-> TRUE]]
                           /\ dec' = [dec EXCEPT ![d].pc = "open"]
      BY <2>4
    <3>2. dec' \in [Ids -> DecodeState] /\ dec'[d].pc = "open" /\ \A e \in Ids : e # d => dec'[e] = dec[e]
      BY <3>1, <1>t DEF TypeOK, DecodeState
    <3>3. info' \in [Ids -> Info] /\ info'[d].decoding /\ \A e \in Ids : e # d => info'[e] = info[e]
      BY <3>1, <1>t DEF TypeOK, Info
    <3>4. TypeOK' BY <2>1, <2>2, <3>1, <3>2, <3>3, <1>t DEF TypeOK, Info, DecodeState
    <3>5. DiskInv' BY <2>1, <3>2, <1>t DEF DiskInv
    <3>6. DecodingInv' BY <3>2, <3>3 DEF ParquetInv, DecodingInv, InFlight
    <3>7. EntryInv' /\ NoShipAfterClose' BY <2>1, <2>2, <2>3 DEF EntryInv, NoShipAfterClose
    <3>8. DecodeOwnsEntry'
      <4>1. \A e \in Ids : e # None BY DEF None
      <4>2. \A e \in Ids : InFlight(e) /\ e \notin orphans => dec[e].pc = "end"
        BY <2>3, <4>1 DEF ParquetInv, DecodeOwnsEntry
      <4>3. QED BY <2>1, <3>1, <3>2, <4>2 DEF DecodeOwnsEntry, InFlight
    <3>9. QED BY <3>4, <3>5, <3>6, <3>7, <3>8 DEF ParquetInv
  <2>5. CASE slot' \in {None, TextTail} /\ UNCHANGED <<info, dec>>
    <3>1. TypeOK' BY <2>1, <2>2, <2>5, <1>t DEF TypeOK
    <3>2. DiskInv' /\ DecodingInv' /\ EntryInv' /\ NoShipAfterClose'
      BY <2>1, <2>2, <2>3, <2>5 DEF ParquetInv, DiskInv, DecodingInv, EntryInv, NoShipAfterClose, InFlight
    <3>3. \A e \in Ids : e # None BY DEF None
    <3>4. DecodeOwnsEntry' BY <2>1, <2>3, <2>5, <3>3 DEF ParquetInv, DecodeOwnsEntry, InFlight
    <3>5. QED BY <3>1, <3>2, <3>4 DEF ParquetInv
  <2>6. QED BY <1>5, <2>4, <2>5 DEF PollDetect
<1>6. CASE PollSleep
  <2>1. UNCHANGED <<byExtension, path, content, lastVer, mu, matched, fileInode, slot, info, dec, closer, orphans, shipped>>
    BY <1>6 DEF PollSleep, diskVars
  <2>2. poll = "sleep" /\ poll' \in {"top", "exited"} BY <1>6 DEF PollSleep
  <2>3. QED
    BY <2>1, <2>2, <1>t DEF ParquetInv, TypeOK, DiskInv, DecodingInv, EntryInv, DecodeOwnsEntry, NoShipAfterClose, InFlight
<1>7. QED BY <1>1, <1>2, <1>3, <1>4, <1>5, <1>6 DEF Poll
\* processParquetFile: it drops the entry only when it owns it, and it stays in flight
\* until its deferred functions have run.
LEMMA DecodeStep == ASSUME ParquetInv, NEW d \in Ids, Decode(d) PROVE ParquetInv'
<1> USE ParquetAssumption
<1>t. TypeOK /\ DiskInv BY DEF ParquetInv
<1>d. dec \in [Ids -> DecodeState] /\ info \in [Ids -> Info] BY <1>t DEF TypeOK, Info, DecodeState
<1>n. NoDecode \in DecodeState /\ NoInfo \in Info /\ [NoDecode EXCEPT !.pc = "drop"] \in DecodeState
      /\ [NoDecode EXCEPT !.pc = "end"] \in DecodeState
      /\ [NoDecode EXCEPT !.pc = "drop"].pc = "drop" /\ [NoDecode EXCEPT !.pc = "end"].pc = "end"
  BY DEF NoDecode, NoInfo, DecodeState, Info, None
<1>u. UNCHANGED <<byExtension, path, content, lastVer, mu, poll, matched, fileInode, closer>>
  BY DEF Decode, DecodeOpen, DecodeRead, DecodeShip, dropTailEntryIfMatch, DecodeEnd, diskVars
<1>f. InFlight(d) /\ closer \notin {"wg", "closed"} /\ info[d].decoding
  <2>1. InFlight(d) BY DEF Decode, DecodeOpen, DecodeRead, DecodeShip, dropTailEntryIfMatch, DecodeEnd, InFlight
  <2>2. QED BY <2>1 DEF ParquetInv, NoShipAfterClose, DecodingInv
<1>1. /\ dec' \in [Ids -> DecodeState] /\ info' \in [Ids -> Info]
      /\ \A e \in Ids : e # d => dec'[e] = dec[e] /\ info'[e] = info[e]
      /\ slot' \in Ids \union {None, TextTail} /\ orphans' \subseteq Ids /\ shipped' \subseteq Versions
      /\ slot' # slot => slot = d /\ slot' = None
      /\ orphans \ {d} \subseteq orphans'
      /\ info'[d].decoding <=> dec'[d].pc # "none"
      /\ dec'[d].pc \in {"none", "end"} \/ (slot' = slot /\ orphans' = orphans /\ dec[d].pc # "end")
      /\ dec'[d].pc = "read" => dec'[d].inode \in Inodes /\ content[dec'[d].inode] \in Versions
      /\ dec'[d].pc = "ship" => dec'[d].ver \in Versions
  <2>1. CASE DecodeOpen(d)
    <3>1. UNCHANGED <<slot, info, orphans, shipped>> /\ dec[d].pc = "open" BY <2>1 DEF DecodeOpen
    <3> DEFINE new == IF path = None THEN [dec[d] EXCEPT !.pc = "drop"]
                      ELSE [pc |-> "read", inode |-> path, ver |-> content[path]]
    <3>2. dec' = [dec EXCEPT ![d] = new] BY <2>1 DEF DecodeOpen
    <3>3. new \in DecodeState /\ new.pc \in {"drop", "read"}
          /\ (new.pc = "read" => new.inode \in Inodes /\ content[new.inode] \in Versions)
      BY <1>d, <1>t DEF DecodeState, TypeOK, DiskInv
    <3>4. dec' \in [Ids -> DecodeState] /\ dec'[d] = new /\ \A e \in Ids : e # d => dec'[e] = dec[e]
      BY <3>2, <3>3, <1>d
    <3> HIDE DEF new
    <3>5. QED BY <3>1, <3>3, <3>4, <1>d, <1>t, <1>f DEF TypeOK
  <2>2. CASE DecodeRead(d)
    <3>1. UNCHANGED <<slot, orphans, shipped>> /\ dec[d].pc = "read" BY <2>2 DEF DecodeRead
    <3> DEFINE bytes == content[dec[d].inode]
               new == IF bytes \in Bad THEN [NoDecode EXCEPT !.pc = "drop"]
                      ELSE [pc |-> "ship", inode |-> None, ver |-> bytes]
    <3>2. dec' = [dec EXCEPT ![d] = new] /\ info' = [info EXCEPT ![d].ver = dec[d].ver] BY <2>2 DEF DecodeRead
    <3>b. bytes \in Versions BY <3>1, <1>t DEF DiskInv
    <3>3. new \in DecodeState /\ new.pc \in {"drop", "ship"} /\ (new.pc = "ship" => new.ver \in Versions)
      <4> HIDE DEF bytes
      <4>1. [pc |-> "ship", inode |-> None, ver |-> bytes] \in DecodeState BY <3>b DEF DecodeState
      <4>2. QED BY <4>1, <3>b, <1>n
    <3>4. dec' \in [Ids -> DecodeState] /\ dec'[d] = new /\ \A e \in Ids : e # d => dec'[e] = dec[e]
      BY <3>2, <3>3, <1>d
    <3>5. dec[d].ver \in Versions \union {None} BY <1>d DEF DecodeState
    <3>6. info' \in [Ids -> Info] /\ info'[d].decoding = info[d].decoding /\ \A e \in Ids : e # d => info'[e] = info[e]
      BY <3>2, <3>5, <1>d DEF Info
    <3> HIDE DEF new
    <3>7. info'[d].decoding /\ dec'[d].pc # "none" BY <3>6, <3>4, <3>3, <1>f
    <3>8. QED BY <3>1, <3>3, <3>4, <3>6, <3>7, <1>t DEF TypeOK
  <2>3. CASE DecodeShip(d)
    <3>1. UNCHANGED <<slot, info, orphans>> /\ dec[d].pc = "ship" /\ shipped' = shipped \union {dec[d].ver}
          /\ dec' = [dec EXCEPT ![d] = [NoDecode EXCEPT !.pc = "end"]]
      BY <2>3 DEF DecodeShip
    <3>2. shipped' \subseteq Versions BY <3>1, <1>t DEF DiskInv, TypeOK
    <3>3. dec' \in [Ids -> DecodeState] /\ dec'[d].pc = "end" /\ \A e \in Ids : e # d => dec'[e] = dec[e]
      BY <3>1, <1>n, <1>d
    <3>4. QED BY <3>1, <3>2, <3>3, <1>d, <1>f, <1>t DEF TypeOK
  <2>4. CASE dropTailEntryIfMatch(d)
    <3>1. /\ UNCHANGED <<info, orphans, shipped>> /\ dec[d].pc = "drop" /\ slot' = IF slot = d THEN None ELSE slot
          /\ dec' = [dec EXCEPT ![d].pc = "end"]
      BY <2>4 DEF dropTailEntryIfMatch
    <3>2. dec' \in [Ids -> DecodeState] /\ dec'[d].pc = "end" /\ \A e \in Ids : e # d => dec'[e] = dec[e]
      BY <3>1, <1>d DEF DecodeState
    <3>3. QED BY <3>1, <3>2, <1>d, <1>f, <1>t DEF TypeOK
  <2>5. CASE DecodeEnd(d)
    <3> DEFINE new == IF slot = d THEN [info[d] EXCEPT !.decoding = FALSE] ELSE NoInfo
    <3>1. /\ UNCHANGED <<slot, shipped>> /\ dec' = [dec EXCEPT ![d] = NoDecode] /\ orphans' = orphans \ {d}
          /\ info' = [info EXCEPT ![d] = new]
      BY <2>5 DEF DecodeEnd
    <3>2. new \in Info /\ ~new.decoding BY <1>d, <1>n DEF Info, NoInfo
    <3>3. dec' \in [Ids -> DecodeState] /\ dec'[d].pc = "none" /\ \A e \in Ids : e # d => dec'[e] = dec[e]
      BY <3>1, <1>n, <1>d DEF NoDecode
    <3>4. info' \in [Ids -> Info] /\ info'[d] = new /\ \A e \in Ids : e # d => info'[e] = info[e]
      BY <3>1, <3>2, <1>d
    <3> HIDE DEF new
    <3>5. ~info'[d].decoding BY <3>2, <3>4
    <3>6. QED BY <3>1, <3>3, <3>4, <3>5, <1>t DEF TypeOK
  <2>6. QED BY <2>1, <2>2, <2>3, <2>4, <2>5 DEF Decode
<1>2. TypeOK' BY <1>1, <1>u, <1>t DEF TypeOK, Info, DecodeState
<1>3. DiskInv' BY <1>1, <1>u, <1>t DEF DiskInv
<1>4. DecodingInv'
  <2> SUFFICES ASSUME NEW e \in Ids PROVE info'[e].decoding <=> dec'[e].pc # "none"
    BY DEF DecodingInv, InFlight
  <2>1. CASE e = d BY <2>1, <1>1
  <2>2. CASE e # d BY <2>2, <1>1 DEF ParquetInv, DecodingInv, InFlight
  <2>3. QED BY <2>1, <2>2
<1>5. EntryInv' /\ NoShipAfterClose'
  <2>1. \A e \in Ids : e # None BY DEF None
  <2>2. EntryInv' BY <1>1, <1>u DEF ParquetInv, EntryInv
  <2>3. QED BY <2>2, <1>u, <1>f DEF NoShipAfterClose
<1>6. DecodeOwnsEntry'
  <2> SUFFICES ASSUME NEW e \in Ids, InFlight(e)', e \notin orphans' PROVE slot' = e \/ dec'[e].pc = "end"
    BY DEF DecodeOwnsEntry
  <2>1. CASE e = d
    <3>1. dec'[d].pc = "end" \/ (slot' = slot /\ orphans' = orphans /\ dec[d].pc # "end")
      BY <2>1, <1>1 DEF InFlight
    <3>2. QED BY <2>1, <3>1, <1>f DEF ParquetInv, DecodeOwnsEntry
  <2>2. CASE e # d
    BY <2>2, <1>1 DEF ParquetInv, DecodeOwnsEntry, InFlight
  <2>3. QED BY <2>1, <2>2
<1>7. QED BY <1>2, <1>3, <1>4, <1>5, <1>6 DEF ParquetInv

\* Close: it has the lock only between two poll cycles, and waits for the decodes.
LEMMA CloseStep == ASSUME ParquetInv, CloseCancel \/ Closing \/ UNCHANGED vars PROVE ParquetInv'
<1> USE ParquetAssumption
<1>t. TypeOK BY DEF ParquetInv
<1>1. UNCHANGED <<byExtension, path, content, lastVer, mu, poll, matched, fileInode, slot, info, dec, orphans, shipped>>
  BY DEF CloseCancel, Closing, CloseLock, CloseWaitParquet, CloseWaitPoll, vars, diskVars
<1>2. /\ closer' \in {"no", "cancelled", "parquetWg", "wg", "closed"}
      /\ closer' = "parquetWg" => closer = "parquetWg" \/ mu = "free"
      /\ closer' = "wg" => closer = "wg" \/ (closer = "parquetWg" /\ \A d \in Ids : ~InFlight(d))
      /\ closer' = "closed" => closer = "closed" \/ closer = "wg"
  BY <1>t DEF CloseCancel, Closing, CloseLock, CloseWaitParquet, CloseWaitPoll, vars, TypeOK
<1>3. TypeOK' BY <1>1, <1>2, <1>t DEF TypeOK
<1>4. DiskInv' /\ DecodingInv' /\ DecodeOwnsEntry' BY <1>1 DEF ParquetInv, DiskInv, DecodingInv, DecodeOwnsEntry, InFlight
<1>5. EntryInv'
  <2>1. mu = "free" => poll # "detect" BY <1>t DEF TypeOK
  <2>2. QED BY <1>1, <1>2, <2>1 DEF ParquetInv, EntryInv
<1>6. NoShipAfterClose' BY <1>1, <1>2 DEF ParquetInv, NoShipAfterClose, InFlight
<1>7. QED BY <1>3, <1>4, <1>5, <1>6 DEF ParquetInv

\* The invariant is inductive.
LEMMA ParquetInvariant == Spec => []ParquetInv
<1>1. ParquetInv /\ [Next]_vars => ParquetInv'
  BY DiskStep, PollStep, DecodeStep, CloseStep DEF Next, Terminated
<1>2. QED BY <1>1, ParquetInit, PTL DEF Spec

\* The file adapter's Parquet state keeps its type: in particular a.mu is held exactly
\* in the part of pollFiles that looks at the entries.
THEOREM ParquetTypeCorrect == Spec => []TypeOK
<1>1. ParquetInv => TypeOK BY DEF ParquetInv
<1>2. QED BY <1>1, ParquetInvariant, PTL

\* A decode under way owns the path's entry unless its file was removed, two decodes
\* never ship the same version unless one of them lost its file, and Close goes on to
\* close the client only when no decode is left: for any number of versions, inodes and
\* decodes, whichever versions do not decode, and however the file is rewritten,
\* replaced and removed meanwhile.
THEOREM DecodesOwned == Spec => []DecodesAreOwned
<1>1. ParquetInv => DecodesAreOwned
  <2> SUFFICES ASSUME ParquetInv PROVE NoDoubleDecode
    BY DEF ParquetInv, DecodesAreOwned
  <2> SUFFICES ASSUME NEW d \in Ids, NEW e \in Ids, d # e, dec[d].pc = "ship", dec[e].pc = "ship",
                      d \notin orphans, e \notin orphans
               PROVE FALSE
    BY DEF NoDoubleDecode
  <2>1. slot = d /\ slot = e BY DEF ParquetInv, DecodeOwnsEntry, InFlight
  <2>2. QED BY <2>1
<1>2. QED BY <1>1, ParquetInvariant, PTL
=============================================================================
