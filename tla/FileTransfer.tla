---------------------------- MODULE FileTransfer ----------------------------
(***************************************************************************)
(* A download: TransferJob (libs/hbb_common/src/fs.rs) on both sides, the  *)
(* reading side in a Connection (src/server/connection.rs, whose file      *)
(* timer calls handle_read_jobs), the writing side in the client           *)
(* (src/client/io_loop.rs).  The two exchange messages over one ordered    *)
(* connection, which may break at any time; the client saves where its     *)
(* jobs are when its loop ends, not when its process is killed, and offers *)
(* to resume them after the next login.                                    *)
(*                                                                         *)
(* The client has at most one writing job at a time; the Connection may    *)
(* have more, since a job whose reading failed stays in its list.  Both    *)
(* peers detect overwriting and resume (version 1.4.2 or later).  A digest *)
(* (size and time of the source) is the version of the source, which       *)
(* changes only while nobody is connected.  An f.download is shorter than  *)
(* 4 GiB: the offset of an answer is its size cast to u32                  *)
(* (FileTransferSendConfirmRequest.offset_blk in message.proto).           *)
(***************************************************************************)
EXTENDS Naturals, Sequences, SequencesExt

CONSTANTS
    N, Blocks, None,    \* as in FileCopy
    MaxVersion,         \* the largest version of a source file
    MaxJobs,            \* jobs started or loaded
    MaxFaults           \* input and output errors

ASSUME NAssumption == N \in Nat \ {0}
ASSUME BlocksAssumption == Blocks \in [0 .. N - 1 -> Nat]
ASSUME OffsetAssumption == \A f \in 0 .. N - 1 : Blocks[f] < 32768   \* of BUF_SIZE
ASSUME BoundsAssumption ==
    MaxVersion \in Nat \ {0} /\ MaxJobs \in Nat /\ MaxFaults \in Nat

VARIABLES
    connected,
    read_jobs,      \* Connection.read_jobs
    write_job,      \* the element of Remote.write_jobs, or None
    toReceiver,     \* FileResponses under way to the client
    toSender,       \* FileActions under way to the Connection
    src,            \* src[f]: the version of the source
    disk,           \* the client's directory: f, f.download and f.digest
    saved,          \* PeerConfig.transfer: the job the client may resume
    ask,            \* the file override_file_confirm asks about, or None
    jobs,           \* ids given to jobs (get_next_job_id)
    faults,         \* errors so far
    \* The remaining variables are history.
    skips,          \* files this job was told to skip
    suspect,        \* files with an error or with remains of another job
    failed,         \* reading jobs that nobody will answer: they go on after
                    \* an error was sent, or the writer dropped a question
    done            \* the last job ended with FileTransferDone

peers == <<read_jobs, write_job, ask>>
wires == <<toReceiver, toSender>>
history == <<skips, suspect, failed, done>>
vars == <<connected, peers, wires, src, disk, saved, jobs, faults, history>>

FC == INSTANCE FileCopy WITH final <- disk.final

Files == FC!Files

TransferJob == [
    id : Nat,
    num : Nat,                          \* file_num
    stream : Nat \cup {None},           \* data_stream: where the reader is,
                                        \* which file the writer has open
    confirmed : BOOLEAN, waiting : BOOLEAN, skipped : BOOLEAN,
    resume : BOOLEAN, last : BOOLEAN,   \* is_resume, is_last_job
    listed : BOOLEAN,                   \* files has been set
    digest : Nat \cup {None},
    strategy : BOOLEAN \cup {None}]     \* default_overwrite_strategy

ASSUME NoneAssumption == None \notin Nat \cup FC!Content \cup TransferJob

Response ==
    [kind : {"dir", "done", "error"}, id : Nat]
        \cup [kind : {"digest"}, id : Nat, num : Nat, ver : Nat]
        \cup [kind : {"block"}, id : Nat, num : Nat, ver : Nat, idx : Nat]

FileAction ==
    [kind : {"cancel"}, id : Nat]
        \cup [kind : {"send"}, id : Nat, num : Nat]
        \cup [kind : {"confirm"}, id : Nat, num : Nat, skip : BOOLEAN, offset : Nat]

\* Type correctness of every variable.
TypeOK ==
    /\ connected \in BOOLEAN
    /\ read_jobs \in Seq(TransferJob)
    /\ write_job \in TransferJob \cup {None}
    /\ toReceiver \in Seq(Response)
    /\ toSender \in Seq(FileAction)
    /\ src \in [Files -> 1 .. MaxVersion]
    /\ disk \in [final : [Files -> FC!Content \cup {None}],
                 download : [Files -> FC!Content \cup {None}],
                 digest : [Files -> Nat \cup {None}]]
    /\ saved \in [num : Nat, skips : SUBSET Files] \cup {None}
    /\ ask \in Files \cup {None}
    /\ jobs \in 0 .. MaxJobs
    /\ faults \in 0 .. MaxFaults
    /\ skips \in SUBSET Files
    /\ suspect \in SUBSET Files
    /\ failed \in SUBSET (1 .. MaxJobs)
    /\ done \in BOOLEAN

Init ==
    /\ connected = FALSE
    /\ read_jobs = <<>>
    /\ write_job = None
    /\ toReceiver = <<>>
    /\ toSender = <<>>
    /\ src = [f \in Files |-> 1]
    /\ \E old \in [Files -> {None, FC!Old}] :
        disk = [final |-> old, download |-> [f \in Files |-> None],
                digest |-> [f \in Files |-> None]]
    /\ saved = None
    /\ ask = None
    /\ jobs = 0
    /\ faults = 0
    /\ skips = {}
    /\ suspect = {}
    /\ failed = {}
    /\ done = FALSE

-----------------------------------------------------------------------------
(***************************************************************************)
(* TransferJob                                                             *)
(***************************************************************************)

\* new_read and new_write.
NewJob(id, num) ==
    [id |-> id, num |-> num, stream |-> None,
     confirmed |-> FALSE, waiting |-> FALSE, skipped |-> FALSE,
     resume |-> FALSE, last |-> FALSE, listed |-> FALSE,
     digest |-> None, strategy |-> None]

\* Faulty: a skipped file is sent.
ConfirmSendsSkipped(j, m, at) ==
    IF m.num # j.num THEN j
    ELSE [j EXCEPT !.confirmed = TRUE, !.skipped = FALSE,
                   !.stream = IF m.offset > 0 THEN at ELSE @]

\* Faulty: a job that skips a file still waits for the answer.
ConfirmStillWaits(j, m, at) ==
    IF m.num # j.num THEN j
    ELSE IF m.skip
    THEN [j EXCEPT !.stream = None, !.confirmed = FALSE,
                   !.skipped = TRUE, !.num = @ + 1]
    ELSE [j EXCEPT !.confirmed = TRUE, !.skipped = FALSE,
                   !.stream = IF m.offset > 0 THEN at ELSE @]

\* confirm, with set_file_skipped, set_file_confirmed and set_stream_offset;
\* at is where the stream is after a seek, or where it was when it fails.
Confirm(j, m, at) ==
    IF m.num # j.num THEN j
    ELSE IF m.skip
    THEN [j EXCEPT !.stream = None, !.confirmed = FALSE, !.waiting = FALSE,
                   !.skipped = TRUE, !.num = @ + 1]
    ELSE [j EXCEPT !.confirmed = TRUE, !.skipped = FALSE,
                   !.stream = IF m.offset > 0 THEN at ELSE @]

\* The job goes on with the next file, after an end of file or an error.
Advance(j) ==
    [j EXCEPT !.num = @ + 1, !.stream = None,
              !.confirmed = FALSE, !.waiting = FALSE]

\* modify_time, when the renaming fails: only f.digest is removed.
NotRenamed(d, j) ==
    IF ~j.listed \/ j.num >= N THEN d ELSE [d EXCEPT !.digest[j.num] = None]

\* modify_time: the current file gets its name.
ModifyTime(d, j) ==
    IF ~j.listed \/ j.num >= N THEN d
    ELSE IF d.download[j.num] = None THEN [d EXCEPT !.digest[j.num] = None]
    ELSE [final |-> [d.final EXCEPT ![j.num] = d.download[j.num]],
          download |-> [d.download EXCEPT ![j.num] = None],
          digest |-> [d.digest EXCEPT ![j.num] = None]]

\* remove_download_file
RemoveDownloadFile(d, j) ==
    IF ~j.listed \/ j.num >= N THEN d
    ELSE [d EXCEPT !.download[j.num] = None, !.digest[j.num] = None]

\* write_all at the end of what a file holds.
WriteAll(c, m) ==
    IF m.idx = 0 THEN c
    ELSE [ver |-> m.ver, len |-> c.len + 1,
          ok |-> c.ok /\ m.idx = c.len + 1 /\ (c.len = 0 \/ c.ver = m.ver)]

-----------------------------------------------------------------------------
(***************************************************************************)
(* The reading side.                                                       *)
(***************************************************************************)

Done(j) == [kind |-> "done", id |-> j.id]
Error(j) == [kind |-> "error", id |-> j.id]

\* init_data_stream and open_data_stream: the job and what it sends.  When
\* the opening fails the job goes on with the next file; when the digest
\* fails it stays at this one (open, which is as good as not yet opened).
InitDataStream(j, ok, stays) ==
    IF j.num >= N THEN [job |-> [j EXCEPT !.stream = None], out |-> <<>>]
    ELSE IF j.stream = None /\ ~ok
    THEN [job |-> IF stays THEN j ELSE Advance(j), out |-> <<Error(j)>>]
    ELSE LET o == IF j.stream # None THEN j
                  ELSE [j EXCEPT !.stream = 0, !.confirmed = FALSE, !.waiting = FALSE]
         IN IF o.confirmed \/ o.waiting THEN [job |-> o, out |-> <<>>]
            ELSE [job |-> [o EXCEPT !.waiting = TRUE],
                  out |-> <<[kind |-> "digest", id |-> j.id, num |-> j.num,
                             ver |-> src[j.num]]>>]

\* Faulty: the last block of a file is not sent.
ReadBlockStopsEarly(j, ok) ==
    LET block(i) == <<[kind |-> "block", id |-> j.id, num |-> j.num,
                       ver |-> src[j.num], idx |-> i]>>
    IN  IF ~j.confirmed
        THEN [job |-> j, over |-> ~j.waiting,
              out |-> IF j.waiting THEN <<>> ELSE <<Done(j)>>]
        ELSE IF j.stream + 1 < Blocks[j.num]
        THEN [job |-> [j EXCEPT !.stream = @ + 1], over |-> FALSE,
              out |-> block(j.stream + 1)]
        ELSE [job |-> Advance(j), over |-> FALSE, out |-> block(0)]

\* read, job_completed and job_error; over tells that the job is finished.
ReadBlock(j, ok) ==
    LET block(i) == <<[kind |-> "block", id |-> j.id, num |-> j.num,
                       ver |-> src[j.num], idx |-> i]>>
    IN  IF ~j.confirmed
        THEN [job |-> j, over |-> ~j.waiting,
              out |-> IF j.waiting THEN <<>>
                      ELSE IF j.skipped /\ N = 1 THEN <<Error(j)>> ELSE <<Done(j)>>]
        ELSE IF ~ok THEN [job |-> Advance(j), over |-> FALSE, out |-> <<Error(j)>>]
        ELSE IF j.stream < Blocks[j.num]
        THEN [job |-> [j EXCEPT !.stream = @ + 1], over |-> FALSE,
              out |-> block(j.stream + 1)]
        ELSE [job |-> Advance(j), over |-> FALSE, out |-> block(0)]

\* The file timer: handle_read_jobs.  Every job opens its file, the first
\* one reads.  At most one of these fails (bad): the opening of job bad or
\* its digest (stays), or the reading (0).
FileTimer ==
    /\ connected
    /\ read_jobs # <<>>
    /\ \E bad \in {None} \cup IF faults = MaxFaults THEN {}
                  ELSE {i \in DOMAIN read_jobs : /\ read_jobs[i].stream = None
                                                 /\ read_jobs[i].num < N}
                       \cup IF read_jobs[1].confirmed THEN {0} ELSE {} :
       \E stays \in BOOLEAN :
        LET inited == [i \in DOMAIN read_jobs |->
                        InitDataStream(read_jobs[i], bad # i, stays)]
            r == ReadBlock(inited[1].job, bad # 0)
            left == [i \in DOMAIN read_jobs |-> IF i = 1 THEN r.job ELSE inited[i].job]
        IN  /\ read_jobs' = IF r.over THEN Tail(left) ELSE left
            /\ toReceiver' = toReceiver
                    \o FlattenSeq([i \in DOMAIN read_jobs |-> inited[i].out]) \o r.out
            /\ faults' = IF bad = None THEN faults ELSE faults + 1
            /\ failed' = (failed \cup (IF bad = None THEN {}
                                       ELSE {read_jobs[IF bad = 0 THEN 1 ELSE bad].id}))
                         \ (IF r.over THEN {read_jobs[1].id} ELSE {})
    /\ UNCHANGED <<connected, write_job, ask, toSender, src, disk, saved, jobs,
                   skips, suspect, done>>

\* FileAction::Send: create_and_start_read_job and process_new_read_job.
HandleSend ==
    /\ toSender # <<>>
    /\ LET m == Head(toSender) IN
        /\ m.kind = "send"
        /\ \/ /\ read_jobs' = Append(read_jobs, NewJob(m.id, m.num))
              /\ toReceiver' = Append(toReceiver, [kind |-> "dir", id |-> m.id])
              /\ UNCHANGED faults
           \/ /\ faults < MaxFaults
              /\ toReceiver' = Append(toReceiver, Error(m))
              /\ faults' = faults + 1
              /\ UNCHANGED read_jobs
    /\ toSender' = Tail(toSender)
    /\ UNCHANGED <<connected, write_job, ask, src, disk, saved, jobs, history>>

\* FileAction::SendConfirm.  An answer for a job that is gone has no effect.
HandleConfirm ==
    /\ toSender # <<>>
    /\ LET m == Head(toSender)
           known == {i \in DOMAIN read_jobs : read_jobs[i].id = m.id}
       IN /\ m.kind = "confirm"
          /\ \/ /\ read_jobs' = [i \in DOMAIN read_jobs |->
                        IF i \in known THEN Confirm(read_jobs[i], m, m.offset)
                        ELSE read_jobs[i]]
                /\ UNCHANGED <<faults, suspect>>
             \/ /\ m.offset > 0
                /\ known # {}
                /\ faults < MaxFaults
                /\ read_jobs' = [i \in DOMAIN read_jobs |->
                        IF i \in known
                        THEN Confirm(read_jobs[i], m, read_jobs[i].stream)
                        ELSE read_jobs[i]]
                /\ faults' = faults + 1
                /\ suspect' = suspect \cup {m.num}
    /\ toSender' = Tail(toSender)
    /\ UNCHANGED <<connected, write_job, ask, toReceiver, src, disk, saved, jobs,
                   skips, failed, done>>

\* Faulty: the job is kept.
HandleCancelKeeps ==
    /\ toSender # <<>>
    /\ Head(toSender).kind = "cancel"
    /\ toSender' = Tail(toSender)
    /\ UNCHANGED <<connected, peers, toReceiver, src, disk, saved, jobs, faults, history>>

\* FileAction::Cancel: remove_job.
HandleCancel ==
    /\ toSender # <<>>
    /\ LET m == Head(toSender) IN
        /\ m.kind = "cancel"
        /\ read_jobs' = RemoveFirstMatch(read_jobs, LAMBDA j : j.id = m.id)
        /\ failed' = failed \ {m.id}
    /\ toSender' = Tail(toSender)
    /\ UNCHANGED <<connected, write_job, ask, toReceiver, src, disk, saved, jobs,
                   faults, skips, suspect, done>>

-----------------------------------------------------------------------------
(***************************************************************************)
(* The writing side.                                                       *)
(***************************************************************************)

\* Files of which a job finds remains: an earlier f.download that it will
\* not continue.
Remains(num, resume) ==
    {f \in Files : /\ disk.download[f] # None
                   /\ ~ /\ resume
                        /\ f = num
                        /\ disk.digest[f] = src[f]
                        /\ disk.download[f].len > 0}

\* The job with that id is in write_jobs (get_job).
ForJob(m) == write_job # None /\ write_job.id = m.id

\* Data::SendFiles.
StartJob ==
    /\ connected
    /\ write_job = None
    /\ jobs < MaxJobs
    /\ jobs' = jobs + 1
    /\ write_job' = NewJob(jobs', 0)
    /\ toSender' = Append(toSender, [kind |-> "send", id |-> jobs', num |-> 0])
    /\ skips' = {}
    /\ suspect' = suspect \cup Remains(0, FALSE)
    /\ done' = FALSE
    /\ UNCHANGED <<connected, read_jobs, ask, toReceiver, src, disk, saved, faults, failed>>

\* Data::ResumeJob.
ResumeJob ==
    /\ connected
    /\ write_job # None
    /\ write_job.last
    /\ write_job' = [write_job EXCEPT !.last = FALSE, !.resume = TRUE]
    /\ toSender' = Append(toSender, [kind |-> "send", id |-> write_job.id,
                                     num |-> write_job.num])
    /\ suspect' = suspect \cup Remains(write_job.num, TRUE)
    /\ done' = FALSE
    /\ UNCHANGED <<connected, read_jobs, ask, toReceiver, src, disk, saved, jobs,
                   faults, skips, failed>>

\* FileResponse::Dir: set_files.
HandleDir ==
    /\ toReceiver # <<>>
    /\ Head(toReceiver).kind = "dir"
    /\ ForJob(Head(toReceiver))
    /\ write_job' = [write_job EXCEPT !.listed = TRUE]
    /\ toReceiver' = Tail(toReceiver)
    /\ UNCHANGED <<connected, read_jobs, ask, toSender, src, disk, saved, jobs,
                   faults, history>>

\* The writer's own confirm and the answer it sends: skip the file or send
\* it from offset.  The writer may fail to open the file it continues.
Decide(j, f, skip, offset) ==
    LET c == [kind |-> "confirm", id |-> j.id, num |-> f, skip |-> skip, offset |-> offset]
    IN  /\ \/ /\ write_job' = Confirm(j, c, f)
              /\ UNCHANGED <<faults, suspect>>
           \/ /\ offset > 0
              /\ j.num = f
              /\ faults < MaxFaults
              /\ write_job' = Confirm(j, c, j.stream)
              /\ faults' = faults + 1
              /\ suspect' = suspect \cup {f}
        /\ toSender' = Append(toSender, c)
        /\ skips' = IF skip THEN skips \cup {f} ELSE skips \ {f}

\* Faulty: the digest is not compared.
IsIdenticalAnyVersion(j, m) ==
    /\ j.resume
    /\ disk.download[m.num] # None
    /\ disk.digest[m.num] # None
    /\ disk.download[m.num].len > 0

\* is_write_need_confirmation: f.download can be continued.
IsIdentical(j, m) ==
    /\ j.resume
    /\ disk.download[m.num] # None
    /\ disk.digest[m.num] = m.ver
    /\ disk.download[m.num].len > 0

\* FileResponse::Digest of a file to download.
HandleDigest ==
    /\ toReceiver # <<>>
    /\ LET m == Head(toReceiver)
           j == [write_job EXCEPT !.digest = m.ver]
       IN /\ m.kind = "digest"
          /\ ForJob(m)
          /\ j.listed /\ m.num < N
          /\ \/ /\ IsIdentical(j, m)
                /\ Decide(j, m.num, FALSE, disk.download[m.num].len)
                /\ UNCHANGED ask
             \/ /\ ~IsIdentical(j, m)
                /\ disk.final[m.num] = None
                /\ Decide(j, m.num, FALSE, 0)
                /\ UNCHANGED ask
             \/ /\ ~IsIdentical(j, m)
                /\ disk.final[m.num] # None
                /\ j.strategy # None
                /\ Decide(j, m.num, ~j.strategy, 0)
                /\ UNCHANGED ask
             \/ /\ ~IsIdentical(j, m)
                /\ disk.final[m.num] # None
                /\ j.strategy = None
                /\ write_job' = j
                /\ ask' = m.num
                /\ UNCHANGED <<toSender, faults, skips, suspect>>
    /\ toReceiver' = Tail(toReceiver)
    /\ UNCHANGED <<connected, read_jobs, src, disk, saved, jobs, failed, done>>

\* FileResponse::Digest, when is_write_need_confirmation cannot tell the time
\* of the file that is there: the error is printed, nothing is answered.
HandleDigestFails ==
    /\ toReceiver # <<>>
    /\ faults < MaxFaults
    /\ LET m == Head(toReceiver)
           j == [write_job EXCEPT !.digest = m.ver]
       IN /\ m.kind = "digest"
          /\ ForJob(m)
          /\ j.listed /\ m.num < N
          /\ ~IsIdentical(j, m)
          /\ disk.final[m.num] # None
          /\ write_job' = j
          /\ failed' = failed \cup {m.id}
    /\ faults' = faults + 1
    /\ toReceiver' = Tail(toReceiver)
    /\ UNCHANGED <<connected, read_jobs, ask, toSender, src, disk, saved, jobs,
                   skips, suspect, done>>

\* Data::SetConfirmOverrideFile: the user's answer, perhaps for all files.
SetConfirmOverrideFile ==
    /\ ask # None
    /\ \E need_override, remember \in BOOLEAN :
        Decide([write_job EXCEPT !.strategy = IF remember THEN need_override ELSE @],
               ask, ~need_override, 0)
    /\ ask' = None
    /\ UNCHANGED <<connected, read_jobs, toReceiver, src, disk, saved, jobs, failed, done>>

\* The block is not for the file the writer has open.
Moves(j, m) == m.num # j.num \/ j.stream = None

\* write: the directory and the job after it prepared the file of a block;
\* modify_time has left the directory d.
Prepared(j, m, d) ==
    IF ~Moves(j, m) THEN [disk |-> disk, job |-> j]
    ELSE [disk |-> [d EXCEPT !.download[m.num] = FC!Empty, !.digest[m.num] = j.digest],
          job |-> [j EXCEPT !.num = m.num, !.stream = m.num]]

\* write_all to the open file, which is no longer f.download when the
\* writer failed to open the file after it.
Written(d, j, m) ==
    IF j.stream = j.num
    THEN [d EXCEPT !.download[j.stream] = WriteAll(@, m)]
    ELSE [d EXCEPT !.final[j.stream] = WriteAll(@, m)]

\* modify_time has something to rename, and cannot.
RenameFails(j) ==
    /\ faults < MaxFaults
    /\ j.listed /\ j.num < N
    /\ disk.download[j.num] # None
    /\ faults' = faults + 1
    /\ suspect' = suspect \cup {j.num}

\* write succeeds, after modify_time has left the directory d.
Write(j, m, d) ==
    LET p == Prepared(j, m, d) IN
    /\ write_job' = p.job
    /\ disk' = Written(p.disk, p.job, m)

\* FileResponse::Block: write, of which the client ignores the result; it
\* ignores itself whether the file it had open could be renamed.
HandleBlock ==
    /\ toReceiver # <<>>
    /\ LET m == Head(toReceiver)
           j == write_job
       IN /\ m.kind = "block"
          /\ ForJob(m)
          /\ j.listed /\ m.num < N
          /\ \/ /\ Write(j, m, ModifyTime(disk, j))
                /\ UNCHANGED <<faults, suspect>>
             \/ /\ Moves(j, m)
                /\ RenameFails(j)
                /\ Write(j, m, NotRenamed(disk, j))
    /\ toReceiver' = Tail(toReceiver)
    /\ UNCHANGED <<connected, read_jobs, ask, toSender, src, saved, jobs,
                   skips, failed, done>>

\* write returns an error: from sync_all, remove_file, File::create or write_all.
HandleBlockFails ==
    /\ toReceiver # <<>>
    /\ faults < MaxFaults
    /\ LET m == Head(toReceiver)
           j == write_job
           d == ModifyTime(disk, j)
           p == Prepared(j, m, d)
       IN /\ m.kind = "block"
          /\ ForJob(m)
          /\ j.listed /\ m.num < N
          /\ \/ /\ Moves(j, m) /\ j.stream # None
                /\ disk' = d
                /\ UNCHANGED write_job
             \/ /\ Moves(j, m) /\ d.digest[m.num] # None
                /\ disk' = d
                /\ write_job' = [j EXCEPT !.num = m.num]
             \/ /\ Moves(j, m)
                /\ disk' = [d EXCEPT !.digest[m.num] = None]
                /\ write_job' = [j EXCEPT !.num = m.num]
             \/ /\ m.idx > 0
                /\ disk' = p.disk
                /\ write_job' = p.job
          /\ suspect' = suspect \cup {m.num}
                \cup IF j.stream = None THEN {} ELSE {j.stream}
    /\ faults' = faults + 1
    /\ toReceiver' = Tail(toReceiver)
    /\ UNCHANGED <<connected, read_jobs, ask, toSender, src, saved, jobs,
                   skips, failed, done>>

\* Faulty: the last file does not get its name.
HandleDoneForgets ==
    /\ toReceiver # <<>>
    /\ Head(toReceiver).kind = "done"
    /\ ForJob(Head(toReceiver))
    /\ write_job' = None
    /\ done' = TRUE
    /\ toReceiver' = Tail(toReceiver)
    /\ UNCHANGED <<connected, read_jobs, ask, toSender, src, disk, saved, jobs, faults,
                   skips, suspect, failed>>

\* FileResponse::Done: the last file gets its name.
HandleDone ==
    /\ toReceiver # <<>>
    /\ Head(toReceiver).kind = "done"
    /\ ForJob(Head(toReceiver))
    /\ \/ /\ disk' = ModifyTime(disk, write_job)
          /\ UNCHANGED <<faults, suspect>>
       \/ /\ RenameFails(write_job)
          /\ disk' = NotRenamed(disk, write_job)
    /\ write_job' = None
    /\ done' = TRUE
    /\ toReceiver' = Tail(toReceiver)
    /\ UNCHANGED <<connected, read_jobs, ask, toSender, src, saved, jobs, skips, failed>>

\* FileResponse::Error: the writer's job ends, whatever file it is about.
HandleError ==
    /\ toReceiver # <<>>
    /\ Head(toReceiver).kind = "error"
    /\ ForJob(Head(toReceiver))
    /\ write_job' = None
    /\ ask' = None
    /\ toReceiver' = Tail(toReceiver)
    /\ UNCHANGED <<connected, read_jobs, toSender, src, disk, saved, jobs, faults, history>>

\* A response for a job that is not in write_jobs any more.
IgnoreResponse ==
    /\ toReceiver # <<>>
    /\ ~ForJob(Head(toReceiver))
    /\ toReceiver' = Tail(toReceiver)
    /\ UNCHANGED <<connected, peers, toSender, src, disk, saved, jobs, faults, history>>

\* Data::CancelJob.
CancelJob ==
    /\ connected
    /\ write_job # None
    /\ toSender' = Append(toSender, [kind |-> "cancel", id |-> write_job.id])
    /\ disk' = RemoveDownloadFile(disk, write_job)
    /\ write_job' = None
    /\ ask' = None
    /\ UNCHANGED <<connected, read_jobs, toReceiver, src, saved, jobs, faults, history>>

-----------------------------------------------------------------------------
(***************************************************************************)
(* The connection breaks, the client is killed, the user comes back.       *)
(***************************************************************************)

\* What is lost with the connection.
Cut ==
    /\ connected
    /\ connected' = FALSE
    /\ read_jobs' = <<>>
    /\ write_job' = None
    /\ ask' = None
    /\ toReceiver' = <<>>
    /\ toSender' = <<>>
    /\ failed' = {}
    /\ done' = FALSE
    /\ UNCHANGED <<src, jobs, faults, skips, suspect>>

\* io_loop ends: sync_jobs_status_to_local.
Disconnect ==
    /\ Cut
    /\ saved' = IF write_job = None THEN None
                ELSE [num |-> write_job.num,
                      skips |-> {f \in skips : f < write_job.num}]
    /\ UNCHANGED disk

\* The client's process ends while it waits.
Kill ==
    /\ Cut
    /\ UNCHANGED <<disk, saved>>

\* It ends in the middle of write: before the file it had open is renamed,
\* before the old digest is removed, before the file is created, before the
\* new digest is written; or in the renaming of the last file.
KillInWrite ==
    /\ Cut
    /\ toReceiver # <<>>
    /\ LET m == Head(toReceiver)
           j == write_job
           d == ModifyTime(disk, j)
       IN /\ ForJob(m)
          /\ \/ /\ m.kind = "block"
                /\ j.listed /\ m.num < N
                /\ Moves(j, m)
                /\ disk' \in {NotRenamed(disk, j),
                              d,
                              [d EXCEPT !.digest[m.num] = None],
                              [d EXCEPT !.digest[m.num] = None,
                                        !.download[m.num] = FC!Empty]}
             \/ /\ m.kind = "done"
                /\ disk' = NotRenamed(disk, j)
    /\ UNCHANGED saved

\* Login, with load_last_jobs and Data::AddJob.
Connect ==
    /\ ~connected
    /\ connected' = TRUE
    /\ \/ /\ saved = None
          /\ UNCHANGED <<write_job, jobs, skips>>
       \/ /\ saved # None
          /\ jobs < MaxJobs
          /\ jobs' = jobs + 1
          /\ write_job' = [NewJob(jobs', saved.num) EXCEPT !.last = TRUE]
          /\ skips' = saved.skips
    /\ UNCHANGED <<read_jobs, ask, wires, src, disk, saved, faults, suspect, failed, done>>

\* Somebody changes a source file, at most MaxVersion - 1 times in all.
ChangeSource ==
    /\ ~connected
    /\ \E f \in Files, v \in 2 .. MaxVersion :
        /\ \A g \in Files : src[g] < v
        /\ src' = [src EXCEPT ![f] = v]
    /\ UNCHANGED <<connected, peers, wires, disk, saved, jobs, faults, history>>

-----------------------------------------------------------------------------
Sender == FileTimer \/ HandleSend \/ HandleConfirm \/ HandleCancel

Receiver ==
    \/ HandleDir \/ HandleDigest \/ HandleDigestFails
    \/ HandleBlock \/ HandleBlockFails
    \/ HandleDone \/ HandleError \/ IgnoreResponse

User == StartJob \/ ResumeJob \/ SetConfirmOverrideFile \/ CancelJob

World == Disconnect \/ Kill \/ KillInWrite \/ Connect \/ ChangeSource

Next == Sender \/ Receiver \/ User \/ World

Spec == Init /\ [][Next]_vars

(***************************************************************************)
(* Both event loops go on: the timer ticks and messages are taken.         *)
(* Nothing is assumed of the user and of the connection.                   *)
(***************************************************************************)
FairSpec ==
    /\ Spec
    /\ WF_vars(FileTimer)
    /\ WF_vars(HandleSend \/ HandleConfirm \/ HandleCancel)
    /\ WF_vars(Receiver)

-----------------------------------------------------------------------------
(***************************************************************************)
(* Properties                                                              *)
(***************************************************************************)

\* When a job ends with FileTransferDone, every file has its name and is a
\* whole copy of one version of the source, or was skipped: nothing is
\* missing because of a lost connection, a resumed job or a file given up.
\* Not said of suspect files: those whose writing, seeking or renaming
\* failed, and those with remains that this job does not continue.
DoneMeansDelivered ==
    done => \A f \in Files :
        \/ f \in skips
        \/ f \in suspect
        \/ FC!Whole(f, disk.final[f])

\* f.digest tells which version the blocks in f.download are from, so that
\* a resumed job does not join two versions, whenever the client was killed.
DigestTells ==
    \A f \in Files :
        /\ disk.digest[f] # None
        /\ disk.download[f] # None
        => disk.download[f].len = 0 \/ disk.download[f].ver = disk.digest[f]

\* The reader sends blocks only of a file the writer has agreed to: the
\* answer to one digest is never taken for the answer to another.
AgreedBeforeSent ==
    \A i \in DOMAIN read_jobs :
        read_jobs[i].confirmed =>
            /\ read_jobs[i].num \notin skips \/ ~ForJob(read_jobs[i])
            /\ read_jobs[i].stream # None

\* A message of one of those kinds about job id is under way.
Pending(kinds, id, wire) ==
    \E p \in DOMAIN wire : wire[p].kind \in kinds /\ wire[p].id = id

\* Nobody waits in vain, for ever holding up the jobs behind it.  A reading
\* job that waits for an answer has its digest under way, or the answer or
\* a cancel, or the user is asked.  Excepted (failed) are the two kinds of
\* job that the code does leave waiting: one that goes on after an error it
\* reported, and one whose question the writer dropped because it could not
\* look at its own file.  The writer's job has a reading job, or the request
\* for one is under way, or its end.  And the writer can take the response
\* that comes next.
NobodyWaitsInVain ==
    /\ \A i \in DOMAIN read_jobs :
        read_jobs[i].waiting /\ ~read_jobs[i].confirmed =>
            \/ Pending({"digest"}, read_jobs[i].id, toReceiver)
            \/ Pending({"confirm", "cancel"}, read_jobs[i].id, toSender)
            \/ ask # None /\ ForJob(read_jobs[i])
            \/ read_jobs[i].id \in failed
    /\ write_job # None /\ ~write_job.last =>
        \/ \E i \in DOMAIN read_jobs : ForJob(read_jobs[i])
        \/ Pending({"send"}, write_job.id, toSender)
        \/ Pending({"done", "error"}, write_job.id, toReceiver)
    /\ toReceiver # <<>> /\ ForJob(Head(toReceiver))
            /\ Head(toReceiver).kind \in {"digest", "block"}
        => write_job.listed /\ Head(toReceiver).num < N

\* A file gets its name whole, and a skipped one is never touched: the
\* transfer implements FileCopy.
ImplementsFileCopy == FC!Spec

\* A download ends or waits for an answer of the user, unless the reader
\* goes on with a job that it told the writer had failed, or waits for an
\* answer that the writer failed to give (failed).
JobEnds ==
    write_job # None /\ ~write_job.last /\ ask = None
        ~> \/ write_job = None \/ ask # None
           \/ failed # {}

\* The reader's jobs end likewise: none but those two kinds waits at the
\* head of the list for an answer that nobody will give.
ReadJobsEnd ==
    read_jobs # <<>> ~> (read_jobs = <<>> \/ ask # None \/ failed # {})

\* The writer ignores an answer for another file than its own, which the
\* comment in confirm calls harmless: what it holds of a file is always a
\* beginning of the source, when nothing fails.
IgnoringIsHarmless ==
    \A f \in Files : disk.download[f] # None => disk.download[f].ok

=============================================================================
