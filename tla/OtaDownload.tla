---------------------------- MODULE OtaDownload ----------------------------
(***************************************************************************)
(* Firmware download: the OTA handle (ota_client.c, ota_fetch.c), driven   *)
(* by the application process that the SDK gives for it                    *)
(* (samples/ota/ota_mqtt_sample.c, process_ota), which keeps the data and  *)
(* how far it got in two files and resumes from them.                      *)
(*                                                                         *)
(* Everything runs in one thread; the messages of the server are handled   *)
(* where the process yields.  What can go wrong at each call does, up to   *)
(* MaxFaults times in a behaviour: the device restarts, a call fails, a    *)
(* piece is corrupted, the server ignores the Range of the request.        *)
(* A firmware is a sequence of FileSize pieces, a piece is known by its    *)
(* version and its place, the MD5 of a sequence of pieces by the sequence. *)
(***************************************************************************)
EXTENDS Integers, Sequences

CONSTANTS
    Versions,      \* firmware versions, each the successor of the one before
    FileSize,      \* pieces of a firmware
    BufLen,        \* pieces one IOT_OTA_FetchYield may bring
    MaxFaults      \* bound: faults in a behaviour

ASSUME OtaAssumption ==
    /\ Versions \subseteq Nat \ {0}
    /\ 1 \in Versions
    /\ {FileSize, BufLen} \subseteq Nat \ {0}
    /\ MaxFaults \in Nat

VARIABLES
    state,         \* of the handle
    fw,            \* fields of the last update message, by version; 0 is NULL
    size_fetched,
    md5,           \* pieces hashed so far
    stream,        \* HTTP response: version, and the place of its last piece
    pc,            \* step of process_ota
    downloaded_size,
    buf,           \* pieces fetched and not saved
    success,       \* upgrade_fetch_success
    file,          \* on disk, per version: pieces
    info,          \* on disk: version and size of the interrupted download
    inbox,         \* messages of the server on their way
    latest,        \* newest version at the server
    faults,
    rejected,      \* history: a version report was refused
    torn           \* history: the download resumed before the end of its file

handleVars == <<state, fw, size_fetched, md5, stream>>
appVars    == <<pc, downloaded_size, buf, success>>
diskVars   == <<file, info>>
serverVars == <<inbox, latest>>
histories  == <<rejected, torn>>
vars == <<handleVars, appVars, diskVars, serverVars, faults, histories>>

Piece(v, i) == <<v, i>>
BadPiece    == <<0, 0>>
Whole(v)    == [i \in 1..FileSize |-> Piece(v, i)]
NoFields    == [version |-> 0, purl |-> 0, md5sum |-> 0]
NoStream    == [of |-> 0, at |-> 0]
NoInfo      == [version |-> 0, size |-> 0]

\* IOT_OTA_Init has returned: the handle of a device that was started.
Started ==
    /\ state' = "INITED"
    /\ fw' = NoFields
    /\ size_fetched' = 0
    /\ md5' = << >>
    /\ stream' = NoStream

Init ==
    /\ state = "INITED"
    /\ fw = NoFields
    /\ size_fetched = 0
    /\ md5 = << >>
    /\ stream = NoStream
    /\ pc = "report"
    /\ downloaded_size = 0
    /\ buf = << >>
    /\ success = TRUE
    /\ file = [v \in Versions |-> << >>]
    /\ info = NoInfo
    /\ inbox = {}
    /\ latest = 1
    /\ faults = 0
    /\ rejected = FALSE
    /\ torn = FALSE

\* Something goes wrong, or nothing does.
Fault   == faults < MaxFaults /\ faults' = faults + 1
NoFault == UNCHANGED faults
Goes(next) == pc' = next

----------------------------------------------------------------------------
(* The handle.                                                             *)

\* IOT_OTA_ResetStatus (size_fetched, the MD5 and md5sum are left as they are)
IOT_OTA_ResetStatus ==
    /\ state' = "INITED"
    /\ fw' = [fw EXCEPT !.version = 0, !.purl = 0]

\* _ota_callback: ignored from FETCHING on.  The fields are set one by one,
\* and stay set when a later one cannot be parsed.
_ota_callback(m) ==
    \/ /\ state # "INITED"
       /\ NoFault
       /\ UNCHANGED <<state, fw, rejected>>
    \/ /\ state = "INITED" /\ m = 0
       /\ state' = "FETCHED"
       /\ rejected' = TRUE
       /\ NoFault
       /\ UNCHANGED fw
    \/ /\ state = "INITED" /\ m # 0
       /\ \/ /\ fw' = [version |-> m, purl |-> m, md5sum |-> m]
             /\ state' = "FETCHING"
             /\ NoFault
          \/ /\ fw' \in {[fw EXCEPT !.version = m],
                         [fw EXCEPT !.version = m, !.purl = m],
                         [fw EXCEPT !.version = m, !.purl = m, !.md5sum = m]}
             /\ Fault
             /\ UNCHANGED state
       /\ UNCHANGED rejected

----------------------------------------------------------------------------
(* process_ota.                                                            *)

\* Mutant: the handle keeps the state the last attempt left it in.
IOT_OTA_ReportVersion_NoReset ==
    /\ pc = "report"
    /\ success' = TRUE
    /\ \/ Fault /\ UNCHANGED <<pc, inbox>>
       \/ Fault /\ inbox' = inbox \cup {0} /\ Goes("wait")
       \/ NoFault /\ inbox' = inbox \cup {latest} /\ Goes("wait")
    /\ UNCHANGED <<handleVars, downloaded_size, buf, diskVars, latest,
                   histories>>

\* IOT_OTA_ReportVersion: the handle is reset, whether or not the report is
\* sent; the server answers with a refusal (0) or the version to update to.
IOT_OTA_ReportVersion ==
    /\ pc = "report"
    /\ IOT_OTA_ResetStatus
    /\ success' = TRUE
    /\ \/ Fault /\ UNCHANGED <<pc, inbox>>
       \/ Fault /\ inbox' = inbox \cup {0} /\ Goes("wait")
       \/ NoFault /\ inbox' = inbox \cup {latest} /\ Goes("wait")
    /\ UNCHANGED <<size_fetched, md5, stream, downloaded_size, buf, diskVars,
                   latest, histories>>

\* IOT_MQTT_Yield brings a message: while waiting for one, between two pieces
\* and while the report of the outcome awaits its acknowledgement.
Yield(m) ==
    /\ m \in inbox
    /\ pc \in {"wait", "fetch", "report"}
    /\ inbox' = inbox \ {m}
    /\ _ota_callback(m)
    /\ UNCHANGED <<size_fetched, md5, stream, appVars, diskVars, latest, torn>>

\* _update_fw_downloaded_size: the info file is about this version.  It is
\* the old downloaded_size, not the stored one, that is compared with the file
\* size; the text of a refusal may have made it larger.
Resumable ==
    info.size > 0 /\ info.version = fw.version /\ downloaded_size <= FileSize

\* _get_local_fw_info frees the version string twice when the stored size is
\* 0, as a fetch without data leaves it.  The GNU library then aborts the
\* process; another one may go on (StartFromZero).
DoubleFree ==
    /\ pc = "wait" /\ state = "FETCHING"
    /\ info.version # 0 /\ info.size = 0
    /\ Goes("aborted")
    /\ NoFault
    /\ UNCHANGED <<handleVars, downloaded_size, buf, success, diskVars,
                   serverVars, histories>>

\* IOT_OTA_IsFetching: without anything to resume, from the start.
StartFromZero ==
    /\ pc = "wait" /\ state = "FETCHING"
    /\ ~Resumable
    /\ downloaded_size' = 0
    /\ Goes("start")
    /\ NoFault
    /\ UNCHANGED <<handleVars, buf, success, diskVars, serverVars, histories>>

\* _cal_exist_fw_md5: the MD5 is started again and fed with the first part of
\* the file.  A file that is too short, or an error, removes the info file.
_cal_exist_fw_md5 ==
    /\ pc = "wait" /\ state = "FETCHING"
    /\ Resumable
    /\ Goes("start")
    /\ \/ /\ info.size <= Len(file[fw.version])
          /\ md5' = SubSeq(file[fw.version], 1, info.size)
          /\ downloaded_size' = info.size
          /\ NoFault
          /\ UNCHANGED info
       \/ /\ \/ info.size > Len(file[fw.version]) /\ NoFault
             \/ Fault
          /\ md5' = << >>
          /\ downloaded_size' = 0
          /\ info' = NoInfo
    /\ UNCHANGED <<state, fw, size_fetched, stream, buf, success, file,
                   serverVars, histories>>

\* Mutant: the MD5 of the download before goes on.
StartHash_Never == UNCHANGED md5

\* A download from the start resets the MD5.
StartHash == md5' = IF downloaded_size = 0 THEN << >> ELSE md5

\* IOT_OTA_StartDownload: a new HTTP request, with the offset in its Range; a
\* response that ignores it is accepted.
IOT_OTA_StartDownload ==
    /\ pc = "start"
    /\ size_fetched' = downloaded_size
    /\ StartHash
    /\ \/ /\ stream' = [of |-> fw.purl, at |-> downloaded_size]
          /\ NoFault
       \/ /\ stream' = [of |-> fw.purl, at |-> 0]
          /\ Fault
    /\ torn' = (downloaded_size \in 1..(Len(file[fw.version]) - 1))
    /\ Goes("fetch")
    /\ UNCHANGED <<state, fw, downloaded_size, buf, success, diskVars,
                   serverVars, rejected>>

\* No memory, or no connection: the attempt ends.
StartFails ==
    /\ pc = "start"
    /\ Fault
    /\ size_fetched' = downloaded_size
    /\ StartHash
    /\ stream' = NoStream
    /\ state' \in {"FETCHING", "DISCONNECTED"}
    /\ success' = FALSE
    /\ Goes("result")
    /\ UNCHANGED <<fw, downloaded_size, buf, diskVars, serverVars, histories>>

\* IOT_OTA_FetchYield: the next n pieces, one of them perhaps corrupted, are
\* counted and hashed.  So is the text of a refusal, as the server gives for a
\* Range that begins at the end of the file: of the error statuses only 403
\* and 404 are errors to the HTTP client.
IOT_OTA_FetchYield(n) ==
    LET right == [i \in 1..n |-> Piece(stream.of, stream.at + i)] IN
    /\ pc = "fetch"
    /\ \/ stream.at + n <= FileSize /\ buf' = right /\ NoFault
       \/ /\ stream.at + n <= FileSize
          /\ \E i \in 1..n : buf' = [right EXCEPT ![i] = BadPiece]
          /\ Fault
       \/ /\ stream.at >= FileSize
          /\ buf' = [i \in 1..n |-> BadPiece]
          /\ NoFault
    /\ stream' = [stream EXCEPT !.at = @ + n]
    /\ size_fetched' = size_fetched + n
    /\ state' = IF size_fetched + n >= FileSize THEN "FETCHED" ELSE state
    /\ md5' = md5 \o buf'
    /\ Goes("save")
    /\ UNCHANGED <<fw, downloaded_size, success, diskVars, serverVars,
                   histories>>

\* A response without a body: no piece, and no error.
FetchNothing ==
    /\ pc = "fetch"
    /\ \/ stream.at >= FileSize /\ NoFault
       \/ Fault
    /\ state' = IF size_fetched >= FileSize THEN "FETCHED" ELSE state
    /\ Goes("info")
    /\ UNCHANGED <<fw, size_fetched, md5, stream, downloaded_size, buf,
                   success, diskVars, serverVars, histories>>

\* The connection fails, or the response cannot be read: FETCHED, with an
\* error.  (The errors that are reported to the server do not reset the
\* handle.)
FetchFails ==
    /\ pc = "fetch"
    /\ Fault
    /\ state' = "FETCHED"
    /\ success' = FALSE
    /\ Goes("result")
    /\ UNCHANGED <<fw, size_fetched, md5, stream, downloaded_size, buf,
                   diskVars, serverVars, histories>>

\* The file opened by _save_fw_data_to_file: truncated for offset 0, else for
\* appending, in which case the seek to the offset has no effect.
Opened == IF downloaded_size = 0 THEN << >> ELSE file[fw.version]

_save_fw_data_to_file ==
    /\ pc = "save"
    /\ \/ /\ file' = [file EXCEPT ![fw.version] = Opened \o buf]
          /\ Goes("info")
          /\ NoFault
          /\ UNCHANGED success
       \/ /\ \E k \in 0..(Len(buf) - 1) :
               file' = [file EXCEPT ![fw.version] = Opened \o SubSeq(buf, 1, k)]
          /\ Goes("result")
          /\ Fault
          /\ success' = FALSE
    /\ buf' = << >>
    /\ UNCHANGED <<handleVars, downloaded_size, info, serverVars, histories>>

\* _update_local_fw_info, whose failure is only logged; then a yield, whose
\* failure ends the attempt without a report.
_update_local_fw_info ==
    LET saved == [version |-> fw.version, size |-> size_fetched]
        next  == IF state = "FETCHED" THEN "check" ELSE "fetch"
    IN
    /\ pc = "info"
    /\ downloaded_size' = size_fetched
    /\ \/ info' = saved /\ Goes(next) /\ NoFault
       \/ info' \in {saved, info, NoInfo} /\ pc' \in {next, "report"} /\ Fault
    /\ UNCHANGED <<handleVars, buf, success, file, serverVars, histories>>

\* Mutant: the firmware is taken for valid when all of it was fetched.
Matches_Size == size_fetched >= FileSize

\* The MD5 is that of the firmware the message announced.
Matches == md5 = Whole(fw.md5sum)

\* IOT_OTA_Ioctl, IOT_OTAG_CHECK_FIRMWARE.  A mismatch is reported, and the
\* report resets the handle unless it cannot be sent.
CheckFirmware ==
    /\ pc = "check"
    /\ info' = NoInfo
    /\ success' = Matches
    /\ md5' = Append(md5, BadPiece)    \* finalized
    /\ \/ Matches /\ NoFault /\ UNCHANGED <<state, fw>>
       \/ ~Matches /\ NoFault /\ IOT_OTA_ResetStatus
       \/ ~Matches /\ Fault /\ UNCHANGED <<state, fw>>
    /\ Goes("result")
    /\ UNCHANGED <<size_fetched, stream, downloaded_size, buf, file,
                   serverVars, histories>>

\* IOT_OTA_ReportUpgradeSuccess or IOT_OTA_ReportUpgradeFail: nothing is sent,
\* nor reset, without a version.  After a failure the process starts anew.
ReportResult ==
    /\ pc = "result"
    /\ \/ fw.version = 0 /\ NoFault /\ UNCHANGED <<state, fw>>
       \/ fw.version # 0 /\ NoFault /\ IOT_OTA_ResetStatus
       \/ fw.version # 0 /\ Fault /\ UNCHANGED <<state, fw>>
    /\ Goes(IF success THEN "done" ELSE "report")
    /\ buf' = << >>
    /\ UNCHANGED <<size_fetched, md5, stream, downloaded_size, success,
                   diskVars, serverVars, histories>>

\* main yields before each call of process_ota, and gives up on an error of
\* the MQTT client other than a reconnection that is under way.
MainExits ==
    /\ pc = "report"
    /\ Fault
    /\ Goes("exited")
    /\ UNCHANGED <<handleVars, downloaded_size, buf, success, diskVars,
                   serverVars, histories>>

----------------------------------------------------------------------------
(* The environment.                                                        *)

\* Power is lost between two steps, or the process, ended, is started again;
\* the files remain.
Restart ==
    /\ pc # "done"
    /\ Fault
    /\ Started
    /\ pc' = "report"
    /\ downloaded_size' = 0
    /\ buf' = << >>
    /\ success' = TRUE
    /\ UNCHANGED <<diskVars, serverVars, histories>>

\* The server has a newer version, and offers it.
NewRelease ==
    /\ latest + 1 \in Versions
    /\ latest' = latest + 1
    /\ inbox' = inbox \cup {latest + 1}
    /\ UNCHANGED <<handleVars, appVars, diskVars, faults, histories>>

process_ota ==
    \/ IOT_OTA_ReportVersion
    \/ \E m \in inbox : Yield(m)
    \/ DoubleFree \/ StartFromZero \/ _cal_exist_fw_md5
    \/ IOT_OTA_StartDownload \/ StartFails
    \/ \E n \in 1..BufLen : IOT_OTA_FetchYield(n)
    \/ FetchNothing \/ FetchFails
    \/ _save_fw_data_to_file \/ _update_local_fw_info
    \/ CheckFirmware \/ ReportResult \/ MainExits

Next == process_ota \/ Restart \/ NewRelease

Spec == Init /\ [][Next]_vars

\* The process runs and messages arrive; there are MaxFaults faults at most.
FairSpec == Spec /\ WF_vars(process_ota)

----------------------------------------------------------------------------
(* Properties.                                                             *)

Pieces == (Versions \cup {0}) \X Nat

Fields == [version : Versions \cup {0}, purl : Versions \cup {0},
           md5sum : Versions \cup {0}]

DataOK ==
    /\ state \in {"INITED", "FETCHING", "FETCHED", "DISCONNECTED"}
    /\ fw \in Fields
    /\ size_fetched \in Nat
    /\ md5 \in Seq(Pieces)
    /\ stream \in [of : Versions \cup {0}, at : Nat]
    /\ pc \in {"report", "wait", "start", "fetch", "save", "info", "check",
               "result", "done", "aborted", "exited"}
    /\ downloaded_size \in Nat
    /\ buf \in Seq(Pieces)
    /\ file \in [Versions -> Seq(Pieces)]
    /\ info \in [version : Versions \cup {0}, size : Nat]
    /\ inbox \in SUBSET (Versions \cup {0})
    /\ latest \in Versions
    /\ faults \in 0..MaxFaults

FlagsOK == {success, rejected, torn} \subseteq BOOLEAN

\* A field of the handle is NULL or that of a version; files, buffer and MD5
\* are sequences of pieces.
TypeOK == DataOK /\ FlagsOK

\* While pieces are fetched and saved, the MD5 has seen exactly what the file
\* holds and the buffer will add, across restarts, new versions and resumed
\* downloads; unless this one resumed before the end of its file.
HashFollowsFile ==
    ~torn =>
        /\ pc = "save" => md5 = Opened \o buf
        /\ pc \in {"info", "check"} =>
             md5 = IF size_fetched = 0 THEN << >> ELSE file[fw.version]

\* A firmware that is accepted is on disk piece by piece, whatever went wrong
\* before; unless this download resumed before the end of its file.  A restart
\* between saving a piece and its size leaves such a file, and the data that
\* follow are then appended to it and hashed as if they were not.
ValidIsWhole ==
    success /\ pc \in {"result", "done"} =>
        file[fw.md5sum] = Whole(fw.md5sum) \/ torn

\* The process waits for a message that does not come, or that the handle
\* ignores: its offer could not be parsed, or its version report was refused,
\* which leaves the handle in FETCHED.
Deaf == /\ pc = "wait"
        /\ \/ state = "FETCHED" /\ rejected
           \/ state = "INITED" /\ inbox = {}

\* Once nothing goes wrong any more the firmware is downloaded and accepted,
\* also after an attempt that ended when all was saved and nothing checked,
\* so that the next one asks for what follows the end of the file; unless the
\* process is Deaf, or has ended: by main's exit on an MQTT error, or by the
\* second free of the version string, for good then, since the info file that
\* led to it stays and every later start meets it again.
EventuallyUpgraded ==
    <>[](\/ pc = "done" \/ Deaf
         \/ pc = "exited"
         \/ pc = "aborted" /\ info.version # 0 /\ info.size = 0)
============================================================================
