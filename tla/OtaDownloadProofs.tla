------------------------- MODULE OtaDownloadProofs -------------------------
(***************************************************************************)
(* Proofs about OtaDownload, for any set of versions, any firmware size,   *)
(* any buffer and any number of faults and restarts.                       *)
(***************************************************************************)
EXTENDS OtaDownload, TLAPS, SequenceTheorems

Busy == {"start", "fetch", "save", "info", "check"}

\* An update that is being fetched is described by one message: its three
\* fields are of one version.
OneOffer ==
    state = "FETCHING" \/ pc \in Busy =>
        /\ fw.version \in Versions
        /\ fw.purl = fw.version
        /\ fw.md5sum = fw.version

\* Between offer and check the handle is FETCHING, or FETCHED with the last
\* pieces: no message of the server changes its fields.  Pieces to save or to
\* check have been counted.
StateFits ==
    /\ pc \in {"start", "fetch"} => state = "FETCHING"
    /\ pc \in {"save", "info"} => state \in {"FETCHING", "FETCHED"}
    /\ pc = "check" => state = "FETCHED"
    /\ pc = "fetch" => size_fetched = downloaded_size
    /\ pc \in {"save", "check"} => size_fetched >= 1
    /\ pc = "info" /\ state = "FETCHED" => size_fetched >= 1

\* What the MD5 has seen at each step of the process.
HashFits ==
    /\ pc = "start" =>
         \/ downloaded_size = 0
         \/ /\ downloaded_size <= Len(file[fw.version])
            /\ md5 = SubSeq(file[fw.version], 1, downloaded_size)
    /\ pc = "fetch" /\ ~torn => md5 = Opened
    /\ HashFollowsFile

IInv == DataOK /\ FlagsOK /\ OneOffer /\ StateFits /\ HashFits /\ ValidIsWhole

----------------------------------------------------------------------------
(* Sequences of pieces.                                                    *)

\* The first n pieces of a file are pieces.
LEMMA PrefixType ==
    ASSUME NEW S, NEW s \in Seq(S), NEW n \in Nat, n <= Len(s)
    PROVE  SubSeq(s, 1, n) \in Seq(S)
<1>1. \A i \in 1..n : s[i] \in S
  BY ElementOfSeq, LenProperties
<1> QED BY <1>1, SubSeqProperties

\* A resumed download that does not begin before the end begins at the end.
LEMMA AtTheEnd ==
    ASSUME NEW d \in Nat, NEW l \in Nat, d # 0, d <= l, d \notin 1..(l - 1)
    PROVE  d = l
OBVIOUS

----------------------------------------------------------------------------
(* The fields of the handle.                                               *)

\* IOT_OTA_ResetStatus sets two fields to NULL and leaves md5sum.
LEMMA ResetFields ==
    ASSUME fw \in Fields, IOT_OTA_ResetStatus
    PROVE  fw' \in Fields /\ fw'.md5sum = fw.md5sum /\ state' = "INITED"
<1>1. [fw EXCEPT !.version = 0] \in Fields
  BY DEF Fields
<1>2. [fw EXCEPT !.version = 0].md5sum = fw.md5sum
  BY DEF Fields
<1> DEFINE f == [fw EXCEPT !.version = 0]
<1>3. fw' = [f EXCEPT !.purl = 0] /\ state' = "INITED"
  BY DEF IOT_OTA_ResetStatus
<1>4. f \in Fields /\ f.md5sum = fw.md5sum
  BY <1>1, <1>2
<1> HIDE DEF f
<1>5. [f EXCEPT !.purl = 0] \in Fields /\ [f EXCEPT !.purl = 0].md5sum = f.md5sum
  BY <1>4 DEF Fields
<1> QED BY <1>3, <1>4, <1>5

\* The message sets the fields one by one.
LEMMA SetFields ==
    ASSUME NEW f \in Fields, NEW v \in Versions \cup {0}
    PROVE  /\ [f EXCEPT !.version = v, !.purl = v] \in Fields
           /\ [f EXCEPT !.version = v, !.purl = v, !.md5sum = v] \in Fields
<1> DEFINE g == [f EXCEPT !.version = v]
           h == [g EXCEPT !.purl = v]
<1>1. g \in Fields
  BY DEF Fields
<1>2. h \in Fields
  <2> HIDE DEF g
  <2> QED BY <1>1 DEF Fields
<1>3. [h EXCEPT !.md5sum = v] \in Fields
  <2> HIDE DEF h
  <2> QED BY <1>2 DEF Fields
<1> QED BY <1>2, <1>3, Zenon

\* A fault counts within its bound.
LEMMA FaultsCount ==
    ASSUME DataOK, Fault \/ NoFault PROVE faults' \in 0..MaxFaults
BY OtaAssumption DEF DataOK, Fault, NoFault

----------------------------------------------------------------------------
(* The initial state.                                                      *)

\* A device that starts with empty files satisfies the invariant.
LEMMA InitIInv == Init => IInv
<1> SUFFICES ASSUME Init PROVE IInv
  OBVIOUS
<1> USE OtaAssumption DEF Init
<1>1. << >> \in Seq(Pieces)
  BY EmptySeq
<1>2. DataOK
  BY <1>1 DEF DataOK, Fields, NoFields, NoStream, NoInfo
<1>3. OneOffer /\ StateFits /\ HashFits /\ ValidIsWhole
  BY DEF OneOffer, StateFits, HashFits, HashFollowsFile, ValidIsWhole, Busy
<1>4. FlagsOK
  BY DEF FlagsOK
<1> QED BY <1>2, <1>3, <1>4 DEF IInv

----------------------------------------------------------------------------
(* Each step keeps the invariant.                                          *)

\* Reporting the version resets the handle.
LEMMA ReportKeeps ==
    ASSUME IInv, IOT_OTA_ReportVersion PROVE IInv'
<1> USE OtaAssumption DEF IInv, IOT_OTA_ReportVersion, Fault, NoFault, Goes
<1>0. fw' \in Fields /\ state' = "INITED"
  BY ResetFields DEF DataOK
<1>1. DataOK'
  <2>1. inbox' \in SUBSET (Versions \cup {0})
    <3>1. inbox' \in {inbox, inbox \cup {0}, inbox \cup {latest}}
      OBVIOUS
    <3>2. inbox \in SUBSET (Versions \cup {0}) /\ latest \in Versions
      BY DEF DataOK
    <3> QED BY <3>1, <3>2, Zenon
  <2>3. faults' \in 0..MaxFaults
    BY DEF DataOK
  <2>2. pc' \in {"report", "wait"}
    OBVIOUS
  <2> QED BY <1>0, <2>1, <2>2, <2>3 DEF DataOK, diskVars, histories
<1>2. OneOffer' /\ StateFits' /\ HashFits' /\ ValidIsWhole'
  BY <1>0 DEF OneOffer, StateFits, HashFits, HashFollowsFile, ValidIsWhole, Busy
<1>3. FlagsOK'
  BY DEF FlagsOK, histories
<1> QED BY <1>1, <1>2, <1>3

\* A message changes the fields in INITED only, where nothing relies on them.
LEMMA YieldKeeps ==
    ASSUME IInv, NEW m \in inbox, Yield(m) PROVE IInv'
<1> USE OtaAssumption DEF IInv, Yield, Fault, NoFault
<1>1. m \in Versions \cup {0}
  BY DEF DataOK
<1>2. /\ fw' \in Fields
      /\ state' \in {"INITED", "FETCHING", "FETCHED", "DISCONNECTED"}
      /\ faults' \in 0..MaxFaults
      /\ state # "INITED" => UNCHANGED <<state, fw>>
      /\ state = "INITED" /\ state' = "FETCHING" =>
           m # 0 /\ fw' = [version |-> m, purl |-> m, md5sum |-> m]
  <2>1. /\ [version |-> m, purl |-> m, md5sum |-> m] \in Fields
        /\ [fw EXCEPT !.version = m] \in Fields
        /\ [fw EXCEPT !.version = m, !.purl = m] \in Fields
        /\ [fw EXCEPT !.version = m, !.purl = m, !.md5sum = m] \in Fields
    BY <1>1, SetFields DEF DataOK, Fields
  <2>2. \/ fw' = fw
        \/ fw' = [version |-> m, purl |-> m, md5sum |-> m]
        \/ fw' = [fw EXCEPT !.version = m]
        \/ fw' = [fw EXCEPT !.version = m, !.purl = m]
        \/ fw' = [fw EXCEPT !.version = m, !.purl = m, !.md5sum = m]
    BY Zenon DEF _ota_callback
  <2>3. fw' \in Fields
    BY <2>1, <2>2, Zenon DEF DataOK
  <2>4. \/ state # "INITED" /\ NoFault /\ UNCHANGED <<state, fw>>
        \/ state = "INITED" /\ state' = "FETCHED" /\ NoFault
        \/ /\ state = "INITED" /\ m # 0 /\ state' = "FETCHING" /\ NoFault
           /\ fw' = [version |-> m, purl |-> m, md5sum |-> m]
        \/ state = "INITED" /\ Fault /\ UNCHANGED state
    BY Zenon DEF _ota_callback
  <2> QED BY <2>3, <2>4 DEF DataOK
<1>7. DataOK'
  BY <1>2 DEF DataOK, appVars, diskVars
<1>3. OneOffer'
  BY <1>1, <1>2 DEF OneOffer, Busy, StateFits, DataOK, appVars
<1>4. StateFits'
  BY <1>2 DEF StateFits, appVars
<1>5. HashFits'
  BY <1>2 DEF StateFits, HashFits, HashFollowsFile, Opened, appVars, diskVars, DataOK
<1>6. ValidIsWhole'
  BY DEF ValidIsWhole, appVars
<1>8. FlagsOK'
  BY Zenon DEF FlagsOK, _ota_callback, appVars
<1> QED BY <1>3, <1>4, <1>5, <1>6, <1>7, <1>8

\* A download from the start.
LEMMA StartFromZeroKeeps ==
    ASSUME IInv, StartFromZero PROVE IInv'
<1> USE DEF IInv, StartFromZero, NoFault, Goes, handleVars, diskVars,
        serverVars, histories
<1>1. DataOK'
  BY DEF DataOK
<1>2. OneOffer' /\ StateFits' /\ HashFits' /\ ValidIsWhole'
  BY DEF OneOffer, StateFits, HashFits, HashFollowsFile, ValidIsWhole, Busy
<1>3. FlagsOK'
  BY DEF FlagsOK
<1> QED BY <1>1, <1>2, <1>3

\* The process ends: by its second free, or because main gives up.
LEMMA EndKeeps ==
    ASSUME IInv, DoubleFree \/ MainExits PROVE IInv'
<1> USE DEF IInv, handleVars, diskVars, serverVars, histories, Goes
<1>1. /\ pc' \in {"aborted", "exited"} /\ (Fault \/ NoFault)
      /\ UNCHANGED <<state, fw, size_fetched, md5, stream, downloaded_size, buf>>
      /\ UNCHANGED <<success, file, info, inbox, latest, rejected, torn>>
      /\ pc \notin Busy
  BY DEF DoubleFree, MainExits, Busy
<1>2. faults' \in 0..MaxFaults
  BY <1>1, FaultsCount, Zenon
<1>3. DataOK'
  BY <1>1, <1>2 DEF DataOK
<1>4. OneOffer' /\ StateFits' /\ HashFits' /\ ValidIsWhole'
  BY <1>1 DEF OneOffer, StateFits, HashFits, HashFollowsFile, ValidIsWhole, Busy
<1>5. FlagsOK'
  BY <1>1 DEF FlagsOK
<1> QED BY <1>3, <1>4, <1>5

\* A resumed download hashes the part of the file that the info file counts.
LEMMA ResumeKeeps ==
    ASSUME IInv, _cal_exist_fw_md5 PROVE IInv'
<1> USE OtaAssumption DEF IInv, _cal_exist_fw_md5, Fault, NoFault, Goes,
        serverVars, histories
<1>1. fw.version \in Versions
  BY DEF OneOffer
<1>2. file[fw.version] \in Seq(Pieces) /\ info.size \in Nat
  BY <1>1 DEF DataOK
<1>3. info.size <= Len(file[fw.version]) =>
        SubSeq(file[fw.version], 1, info.size) \in Seq(Pieces)
  BY <1>2, PrefixType
<1>4. << >> \in Seq(Pieces)
  BY EmptySeq
<1>5. DataOK'
  <2>1. md5' \in Seq(Pieces) /\ downloaded_size' \in Nat
    <3>1. \/ /\ info.size <= Len(file[fw.version])
             /\ md5' = SubSeq(file[fw.version], 1, info.size)
             /\ downloaded_size' = info.size
          \/ md5' = << >> /\ downloaded_size' = 0
      OBVIOUS
    <3>2. CASE md5' = << >> /\ downloaded_size' = 0
      BY <1>4, <3>2
    <3>3. CASE /\ info.size <= Len(file[fw.version])
               /\ md5' = SubSeq(file[fw.version], 1, info.size)
               /\ downloaded_size' = info.size
      BY <1>2, <1>3, <3>3, Zenon
    <3> QED BY <3>1, <3>2, <3>3, Zenon
  <2>3. faults' \in 0..MaxFaults
    <3>1. NoFault \/ Fault
      BY Zenon
    <3> HIDE DEF _cal_exist_fw_md5
    <3> QED BY <3>1 DEF DataOK
  <2>2. info' \in [version : Versions \cup {0}, size : Nat]
    BY DEF DataOK, NoInfo
  <2> QED BY <2>1, <2>2, <2>3 DEF DataOK
<1>6. OneOffer' /\ StateFits' /\ ValidIsWhole'
  BY DEF OneOffer, StateFits, ValidIsWhole, Busy
<1>7. HashFits'
  BY <1>2 DEF HashFits, HashFollowsFile
<1>8. FlagsOK'
  BY DEF FlagsOK
<1> QED BY <1>5, <1>6, <1>7, <1>8

\* The MD5 after IOT_OTA_StartDownload is that of the opened file, unless the
\* download resumes before the end of the file.
LEMMA StartKeeps ==
    ASSUME IInv, IOT_OTA_StartDownload PROVE IInv'
<1> USE OtaAssumption DEF IInv, IOT_OTA_StartDownload, StartHash, Fault,
        NoFault, Goes, diskVars, serverVars
<1>1. fw.version \in Versions /\ fw.purl = fw.version
  BY DEF OneOffer, Busy
<1>2. file[fw.version] \in Seq(Pieces)
  BY <1>1 DEF DataOK
<1>3. << >> \in Seq(Pieces)
  BY EmptySeq
<1>4. DataOK'
  <2>1. Fault \/ NoFault
    BY Zenon
  <2>2. faults' \in 0..MaxFaults
    BY <2>1, FaultsCount, Zenon
  <2>3. stream' \in [of : Versions \cup {0}, at : Nat]
    <3>1. stream' \in {[of |-> fw.purl, at |-> downloaded_size],
                      [of |-> fw.purl, at |-> 0]}
      OBVIOUS
    <3> QED BY <1>1, <3>1 DEF DataOK
  <2>4. /\ size_fetched' = downloaded_size /\ pc' = "fetch"
        /\ md5' \in {<< >>, md5}
        /\ UNCHANGED <<state, fw, downloaded_size, buf, file, info, inbox, latest>>
    OBVIOUS
  <2> HIDE DEF IOT_OTA_StartDownload
  <2> QED BY <1>3, <2>2, <2>3, <2>4 DEF DataOK
<1>5. OneOffer' /\ StateFits' /\ ValidIsWhole'
  BY DEF OneOffer, StateFits, ValidIsWhole, Busy
<1>6. ~torn' => md5' = Opened'
  <2> SUFFICES ASSUME ~torn' PROVE md5' = Opened'
    OBVIOUS
  <2>1. CASE downloaded_size = 0
    BY <2>1 DEF Opened
  <2>2. CASE downloaded_size # 0
    <3>1. Len(file[fw.version]) \in Nat /\ downloaded_size \in Nat
      BY <1>2, LenProperties DEF DataOK
    <3>2. downloaded_size <= Len(file[fw.version])
      BY <2>2 DEF HashFits
    <3>3. downloaded_size \notin 1..(Len(file[fw.version]) - 1)
      OBVIOUS
    <3>5. downloaded_size = Len(file[fw.version])
      BY <2>2, <3>1, <3>2, <3>3, AtTheEnd
    <3>4. md5 = file[fw.version]
      BY <1>2, <2>2, <3>5, SubSeqFull DEF HashFits
    <3> QED BY <2>2, <3>4 DEF Opened
  <2> QED BY <2>1, <2>2
<1>7. HashFits'
  BY <1>6 DEF HashFits, HashFollowsFile
<1>8. FlagsOK'
  BY DEF FlagsOK
<1> QED BY <1>4, <1>5, <1>7, <1>8

\* An attempt that cannot start.
LEMMA StartFailsKeeps ==
    ASSUME IInv, StartFails PROVE IInv'
<1> USE OtaAssumption DEF IInv, StartFails, StartHash, Fault, Goes, diskVars,
        serverVars, histories
<1>1. << >> \in Seq(Pieces)
  BY EmptySeq
<1>2. DataOK'
  BY <1>1 DEF DataOK, NoStream
<1>3. OneOffer' /\ StateFits' /\ HashFits' /\ ValidIsWhole'
  BY DEF OneOffer, StateFits, HashFits, HashFollowsFile, ValidIsWhole, Busy
<1>4. FlagsOK'
  BY DEF FlagsOK
<1> QED BY <1>2, <1>3, <1>4

\* Pieces are hashed as they are fetched.
LEMMA FetchKeeps ==
    ASSUME IInv, NEW n \in 1..BufLen, IOT_OTA_FetchYield(n) PROVE IInv'
<1> USE OtaAssumption DEF IInv, IOT_OTA_FetchYield, Fault, NoFault, Goes,
        diskVars, serverVars, histories
<1>1. n \in Nat /\ n >= 1
  OBVIOUS
<1>2. buf' \in Seq(Pieces)
  <2>1. stream.at \in Nat /\ stream.of \in Versions \cup {0}
    BY DEF DataOK
  <2> DEFINE right == [i \in 1..n |-> Piece(stream.of, stream.at + i)]
  <2>2. right \in [1..n -> Pieces]
    <3> HIDE DEF IOT_OTA_FetchYield, IInv
    <3> QED BY <1>1, <2>1 DEF Piece, Pieces
  <2>3. BadPiece \in Pieces
    BY DEF BadPiece, Pieces
  <2>4. \/ buf' = right \/ \E i \in 1..n : buf' = [right EXCEPT ![i] = BadPiece]
        \/ buf' = [i \in 1..n |-> BadPiece]
    OBVIOUS
  <2>5. buf' \in [1..n -> Pieces]
    <3> HIDE DEF right, IOT_OTA_FetchYield
    <3>1. CASE buf' = [i \in 1..n |-> BadPiece]
      BY <2>3, <3>1
    <3>2. CASE \/ buf' = right
               \/ \E i \in 1..n : buf' = [right EXCEPT ![i] = BadPiece]
      BY <2>2, <2>3, <3>2
    <3> QED BY <2>4, <3>1, <3>2
  <2> QED BY <1>1, <2>5, SeqDef
<1>3. md5' \in Seq(Pieces)
  BY <1>2, ConcatProperties DEF DataOK
<1>4. DataOK'
  <2>1. stream' \in [of : Versions \cup {0}, at : Nat] /\ size_fetched' \in Nat
    <3>1. /\ stream' = [stream EXCEPT !.at = stream.at + n]
          /\ size_fetched' = size_fetched + n
      OBVIOUS
    <3>2. stream \in [of : Versions \cup {0}, at : Nat] /\ size_fetched \in Nat
      BY DEF DataOK
    <3> HIDE DEF IOT_OTA_FetchYield
    <3> QED BY <1>1, <3>1, <3>2
  <2>2. state' \in {state, "FETCHED"}
    OBVIOUS
  <2>3. faults' \in 0..MaxFaults
    <3>1. NoFault \/ Fault
      BY Zenon
    <3> HIDE DEF IOT_OTA_FetchYield
    <3> QED BY <3>1 DEF DataOK
  <2> QED BY <1>2, <1>3, <2>1, <2>2, <2>3 DEF DataOK
<1>5. OneOffer' /\ StateFits' /\ ValidIsWhole'
  BY <1>1 DEF OneOffer, StateFits, ValidIsWhole, Busy, DataOK
<1>6. HashFits'
  <2>1. /\ pc = "fetch" /\ pc' = "save" /\ md5' = md5 \o buf'
        /\ UNCHANGED <<fw, downloaded_size, file, torn>>
    BY Zenon
  <2>2. Opened' = Opened
    BY <2>1 DEF Opened
  <2> HIDE DEF IOT_OTA_FetchYield
  <2> QED BY <2>1, <2>2 DEF HashFits, HashFollowsFile
<1>7. FlagsOK'
  BY DEF FlagsOK
<1> QED BY <1>4, <1>5, <1>6, <1>7

\* A response without a body.
LEMMA FetchNothingKeeps ==
    ASSUME IInv, FetchNothing PROVE IInv'
<1> USE OtaAssumption DEF IInv, FetchNothing, Fault, NoFault, Goes, diskVars,
        serverVars, histories
<1>1. DataOK'
  BY DEF DataOK
<1>2. OneOffer' /\ StateFits' /\ ValidIsWhole'
  BY DEF OneOffer, StateFits, ValidIsWhole, Busy, DataOK
<1>3. HashFits'
  BY DEF HashFits, HashFollowsFile, Opened, StateFits
<1>4. FlagsOK'
  BY DEF FlagsOK
<1> QED BY <1>1, <1>2, <1>3, <1>4

\* A connection that fails.
LEMMA FetchFailsKeeps ==
    ASSUME IInv, FetchFails PROVE IInv'
<1> USE OtaAssumption DEF IInv, FetchFails, Fault, Goes, diskVars,
        serverVars, histories
<1>1. DataOK'
  BY DEF DataOK
<1>2. OneOffer' /\ StateFits' /\ HashFits' /\ ValidIsWhole'
  BY DEF OneOffer, StateFits, HashFits, HashFollowsFile, ValidIsWhole, Busy
<1>3. FlagsOK'
  BY DEF FlagsOK
<1> QED BY <1>1, <1>2, <1>3

\* The buffer moves to the end of the file.
LEMMA SaveKeeps ==
    ASSUME IInv, _save_fw_data_to_file PROVE IInv'
<1> USE OtaAssumption DEF IInv, _save_fw_data_to_file, Fault, NoFault, Goes,
        handleVars, serverVars, histories
<1>1. fw.version \in Versions
  BY DEF OneOffer, Busy
<1>2. << >> \in Seq(Pieces)
  BY EmptySeq
<1>3. Opened \in Seq(Pieces) /\ buf \in Seq(Pieces) /\ Len(buf) \in Nat
  BY <1>1, <1>2, LenProperties DEF Opened, DataOK
<1>4. \A k \in 0..(Len(buf) - 1) : SubSeq(buf, 1, k) \in Seq(Pieces)
  BY <1>3, PrefixType
<1>5. file' \in [Versions -> Seq(Pieces)]
  <2>1. file \in [Versions -> Seq(Pieces)]
    BY DEF DataOK
  <2>2. CASE file' = [file EXCEPT ![fw.version] = Opened \o buf]
    <3>1. Opened \o buf \in Seq(Pieces)
      BY <1>3, ConcatProperties
    <3> QED BY <2>1, <2>2, <3>1
  <2>3. ASSUME NEW k \in 0..(Len(buf) - 1),
               file' = [file EXCEPT ![fw.version] = Opened \o SubSeq(buf, 1, k)]
        PROVE  file' \in [Versions -> Seq(Pieces)]
    <3>1. Opened \o SubSeq(buf, 1, k) \in Seq(Pieces)
      BY <1>3, <1>4, ConcatProperties
    <3> QED BY <2>1, <2>3, <3>1
  <2> QED BY <2>2, <2>3
<1>6. DataOK'
  <2>1. pc' \in {"info", "result"} /\ buf' = << >>
    BY Zenon
  <2>2. /\ UNCHANGED <<state, fw, size_fetched, md5, stream>>
        /\ UNCHANGED <<downloaded_size, info, inbox, latest>>
        /\ Fault \/ NoFault
    BY Zenon
  <2>3. faults' \in 0..MaxFaults
    BY <2>2, FaultsCount, Zenon
  <2> HIDE DEF _save_fw_data_to_file, Fault, NoFault
  <2> QED BY <1>2, <1>5, <2>1, <2>2, <2>3 DEF DataOK
<1>7. OneOffer' /\ StateFits' /\ ValidIsWhole'
  BY DEF OneOffer, StateFits, ValidIsWhole, Busy
<1>8. HashFits'
  <2>1. CASE pc' = "info"
    <3>1. file'[fw.version] = Opened \o buf
      BY <1>1, <2>1 DEF DataOK
    <3>2. size_fetched' # 0
      BY DEF StateFits, DataOK
    <3> QED BY <2>1, <3>1, <3>2 DEF HashFits, HashFollowsFile
  <2>2. CASE pc' = "result"
    BY <2>2 DEF HashFits, HashFollowsFile
  <2> QED BY <2>1, <2>2
<1>9. FlagsOK'
  BY DEF FlagsOK
<1> QED BY <1>6, <1>7, <1>8, <1>9

\* From the first saved pieces on the file is opened for appending.
LEMMA InfoKeeps ==
    ASSUME IInv, _update_local_fw_info PROVE IInv'
<1> USE OtaAssumption DEF IInv, _update_local_fw_info, Fault, NoFault, Goes,
        handleVars, serverVars, histories
<1>1. fw.version \in Versions /\ size_fetched \in Nat
  BY DEF OneOffer, Busy, DataOK
<1>2. DataOK'
  <2>1. Fault \/ NoFault
    BY Zenon
  <2>2. faults' \in 0..MaxFaults
    BY <2>1, FaultsCount, Zenon
  <2>3. info' \in {[version |-> fw.version, size |-> size_fetched], info, NoInfo}
    BY Zenon
  <2>4. info' \in [version : Versions \cup {0}, size : Nat]
    BY <1>1, <2>3 DEF DataOK, NoInfo
  <2>5. /\ downloaded_size' = size_fetched /\ pc' \in {"fetch", "check", "report"}
        /\ UNCHANGED <<state, fw, size_fetched, md5, stream>>
        /\ UNCHANGED <<buf, file, inbox, latest>>
    OBVIOUS
  <2> HIDE DEF _update_local_fw_info
  <2> QED BY <2>2, <2>4, <2>5 DEF DataOK
<1>3. OneOffer' /\ StateFits' /\ ValidIsWhole'
  BY DEF OneOffer, StateFits, ValidIsWhole, Busy
<1>4. HashFits'
  BY <1>1 DEF HashFits, HashFollowsFile, Opened
<1>5. FlagsOK'
  BY DEF FlagsOK
<1> QED BY <1>2, <1>3, <1>4, <1>5

\* A firmware is accepted for its MD5, which is that of its file.
LEMMA CheckKeeps ==
    ASSUME IInv, CheckFirmware PROVE IInv'
<1> USE OtaAssumption DEF IInv, CheckFirmware, Fault, NoFault, Goes,
        serverVars, histories
<1>1. fw.version \in Versions /\ fw.md5sum = fw.version
  BY DEF OneOffer, Busy
<1>2. Append(md5, BadPiece) \in Seq(Pieces)
  BY AppendProperties DEF DataOK, BadPiece, Pieces
<1>3. \/ UNCHANGED <<state, fw>>
      \/ ~Matches /\ fw' \in Fields /\ state' = "INITED"
  BY ResetFields DEF DataOK
<1>4. DataOK'
  <2>1. Fault \/ NoFault
    BY Zenon
  <2>2. faults' \in 0..MaxFaults
    BY <2>1, FaultsCount, Zenon
  <2>3. /\ info' = NoInfo /\ pc' = "result" /\ md5' = Append(md5, BadPiece)
        /\ UNCHANGED <<size_fetched, stream, downloaded_size, buf, file, inbox, latest>>
    BY Zenon
  <2>4. /\ fw' \in Fields
        /\ state' \in {"INITED", "FETCHING", "FETCHED", "DISCONNECTED"}
    BY <1>3 DEF DataOK
  <2> HIDE DEF CheckFirmware
  <2> QED BY <1>2, <2>2, <2>3, <2>4 DEF DataOK, NoInfo
<1>5. OneOffer' /\ StateFits'
  BY <1>1, <1>3 DEF OneOffer, StateFits, Busy
<1>6. HashFits'
  BY DEF HashFits, HashFollowsFile
<1>7. ValidIsWhole'
  <2> SUFFICES ASSUME success', ~torn' PROVE file'[fw'.md5sum] = Whole(fw'.md5sum)
    BY DEF ValidIsWhole
  <2>1. md5 = Whole(fw.md5sum) /\ fw' = fw
    BY <1>3 DEF Matches
  <2>2. md5 = file[fw.version]
    <3>1. size_fetched # 0
      BY DEF StateFits, DataOK
    <3> QED BY <3>1 DEF HashFits, HashFollowsFile
  <2> QED BY <1>1, <2>1, <2>2
<1>8. FlagsOK'
  BY DEF FlagsOK, Matches
<1> QED BY <1>4, <1>5, <1>6, <1>7, <1>8

\* Reporting the outcome keeps md5sum.
LEMMA ResultKeeps ==
    ASSUME IInv, ReportResult PROVE IInv'
<1> USE OtaAssumption DEF IInv, ReportResult, Fault, NoFault, Goes,
        diskVars, serverVars, histories
<1>1. << >> \in Seq(Pieces)
  BY EmptySeq
<1>2. \/ UNCHANGED <<state, fw>>
      \/ fw' \in Fields /\ fw'.md5sum = fw.md5sum /\ state' = "INITED"
  BY ResetFields DEF DataOK
<1>3. DataOK'
  BY <1>1, <1>2 DEF DataOK
<1>4. OneOffer' /\ StateFits' /\ HashFits'
  BY <1>2 DEF OneOffer, StateFits, HashFits, HashFollowsFile, Busy
<1>5. ValidIsWhole'
  BY <1>2 DEF ValidIsWhole, DataOK
<1>6. FlagsOK'
  BY DEF FlagsOK
<1> QED BY <1>3, <1>4, <1>5, <1>6

\* A restart, and a new release.
LEMMA EnvironmentKeeps ==
    ASSUME IInv, Restart \/ NewRelease PROVE IInv'
<1> USE OtaAssumption DEF IInv
<1>1. CASE Restart
  <2>1. << >> \in Seq(Pieces)
    BY EmptySeq
  <2>2. DataOK'
    BY <1>1, <2>1 DEF DataOK, Restart, Fault, Started, Fields, NoFields, NoStream,
       diskVars, serverVars, histories
  <2>3. OneOffer' /\ StateFits' /\ HashFits' /\ ValidIsWhole'
    BY <1>1 DEF Restart, Started, OneOffer, StateFits, HashFits,
       HashFollowsFile, ValidIsWhole, Busy
  <2>4. FlagsOK'
    BY <1>1 DEF FlagsOK, Restart, histories
  <2> QED BY <2>2, <2>3, <2>4
<1>2. CASE NewRelease
  <2> USE <1>2 DEF NewRelease, handleVars, appVars, diskVars, histories
  <2>1. DataOK'
    BY DEF DataOK
  <2>2. OneOffer' /\ StateFits' /\ ValidIsWhole'
    BY DEF OneOffer, StateFits, ValidIsWhole, Busy
  <2>3. HashFits'
    BY DEF HashFits, HashFollowsFile, Opened
  <2>4. FlagsOK'
    BY DEF FlagsOK
  <2> QED BY <2>1, <2>2, <2>3, <2>4
<1> QED BY <1>1, <1>2

\* A step that changes nothing.
LEMMA StutterKeeps ==
    ASSUME IInv, UNCHANGED vars PROVE IInv'
BY DEF IInv, vars, handleVars, appVars, diskVars, serverVars, histories, DataOK, FlagsOK,
   OneOffer, StateFits, HashFits, HashFollowsFile, Opened, ValidIsWhole, Busy

\* IInv is an invariant of the download, with every fault it meets.
LEMMA Invariance == Spec => []IInv
<1>1. IInv /\ [Next]_vars => IInv'
  BY ReportKeeps, YieldKeeps, EndKeeps, StartFromZeroKeeps, ResumeKeeps, StartKeeps,
     StartFailsKeeps, FetchKeeps, FetchNothingKeeps, FetchFailsKeeps, SaveKeeps,
     InfoKeeps, CheckKeeps, ResultKeeps, EnvironmentKeeps, StutterKeeps
  DEF Next, process_ota
<1> QED BY <1>1, InitIInv, PTL DEF Spec

\* The variables keep their types.
THEOREM OtaTypes == Spec => []TypeOK
<1>1. IInv => TypeOK
  BY DEF IInv, TypeOK
<1> QED BY <1>1, Invariance, PTL

\* While a firmware is fetched and saved, the MD5 that IOT_OTA_FetchYield and
\* _cal_exist_fw_md5 compute follows the file that _save_fw_data_to_file
\* writes, unless the download resumed before the end of its file.
THEOREM HashStaysWithFile == Spec => []HashFollowsFile
<1>1. IInv => HashFollowsFile
  BY DEF IInv, HashFits
<1> QED BY <1>1, Invariance, PTL

\* A firmware that IOT_OTAG_CHECK_FIRMWARE accepts is on disk as released,
\* unless the download resumed before the end of its file.
THEOREM AcceptedIsWhole == Spec => []ValidIsWhole
<1>1. IInv => ValidIsWhole
  BY DEF IInv
<1> QED BY <1>1, Invariance, PTL
============================================================================
