-------------------------- MODULE FileTransferInv ---------------------------
(***************************************************************************)
(* The inductive invariants of FileTransfer.  Inv has four groups: TypeOK; *)
(* Protocol (ids, one question per job, what may be under way with what);  *)
(* Writer (where the writer is relative to the reader, that the blocks     *)
(* under way continue what it holds without a gap, that nothing is missing *)
(* of a file left behind); Disk (what is in the directory and in the saved *)
(* job).  Alive is what makes NobodyWaitsInVain inductive on top of Inv:   *)
(* who is left behind is cancelled or has failed, an end comes once, the   *)
(* list of files comes before what needs it.                               *)
(***************************************************************************)
EXTENDS FileTransfer

\* The message or reading job with that id belongs to the writer's job (get_job).
JobIs(id) == write_job # None /\ write_job.id = id

\* Ids given by get_next_job_id are not reused, and nothing is left of a
\* connection that broke.
Ids ==
    /\ \A i \in DOMAIN read_jobs : read_jobs[i].id \in 1 .. jobs
    /\ \A i, k \in DOMAIN read_jobs : read_jobs[i].id = read_jobs[k].id => i = k
    /\ \A p \in DOMAIN toReceiver : toReceiver[p].id \in 1 .. jobs
    /\ \A q \in DOMAIN toSender : toSender[q].id \in 1 .. jobs
    /\ write_job # None => connected /\ write_job.id = jobs /\ jobs >= 1
    /\ ask # None => write_job # None
    /\ done => connected /\ write_job = None
    /\ ~connected => read_jobs = <<>> /\ toReceiver = <<>> /\ toSender = <<>>

\* A request to send is the first thing that is heard of a job, and nothing
\* is under way for a saved job that the user has not resumed.
Fresh ==
    /\ \A q \in DOMAIN toSender : toSender[q].kind = "send" =>
        /\ \A i \in DOMAIN read_jobs : read_jobs[i].id # toSender[q].id
        /\ \A p \in DOMAIN toReceiver : toReceiver[p].id # toSender[q].id
        /\ \A k \in DOMAIN toSender :
            k # q /\ toSender[k].id = toSender[q].id => toSender[k].kind = "cancel"
        /\ JobIs(toSender[q].id) =>
            /\ ~write_job.last
            /\ ask = None
            /\ write_job.stream = None
            /\ toSender[q].num = write_job.num
    /\ write_job # None /\ write_job.last =>
        /\ \A i \in DOMAIN read_jobs : read_jobs[i].id # write_job.id
        /\ \A p \in DOMAIN toReceiver : toReceiver[p].id # write_job.id
        /\ \A q \in DOMAIN toSender : toSender[q].id # write_job.id
        /\ ask = None
        /\ write_job.stream = None

\* The reading job waits for the answer about file num.
Asked(r, num) == r.waiting /\ ~r.confirmed /\ num = r.num

\* is_file_confirmed and file_confirmed_waiting: a digest, the user's
\* question and an answer are about the file at which the reader waits.
Question ==
    \A i \in DOMAIN read_jobs :
        /\ read_jobs[i].stream # None <=> read_jobs[i].waiting
        /\ read_jobs[i].waiting => read_jobs[i].num < N
        /\ read_jobs[i].confirmed => read_jobs[i].waiting
        /\ read_jobs[i].waiting /\ ~read_jobs[i].confirmed => read_jobs[i].stream = 0
        /\ \A p \in DOMAIN toReceiver :
            toReceiver[p].kind = "digest" /\ toReceiver[p].id = read_jobs[i].id
                => Asked(read_jobs[i], toReceiver[p].num)
        /\ \A q \in DOMAIN toSender :
            toSender[q].kind = "confirm" /\ toSender[q].id = read_jobs[i].id
                => Asked(read_jobs[i], toSender[q].num)
        /\ ask # None /\ JobIs(read_jobs[i].id) => Asked(read_jobs[i], ask)

\* A job has one question under way: its digest, the user's or the answer.
OneQuestion ==
    /\ \A p, q \in DOMAIN toReceiver :
        toReceiver[p].kind = "digest" /\ p < q => toReceiver[p].id # toReceiver[q].id
    /\ \A q, k \in DOMAIN toSender :
        toSender[q].kind = "confirm" /\ toSender[k].kind = "confirm"
        /\ toSender[q].id = toSender[k].id => q = k
    /\ \A p \in DOMAIN toReceiver, q \in DOMAIN toSender :
        toReceiver[p].kind = "digest" /\ toSender[q].kind = "confirm"
            => toReceiver[p].id # toSender[q].id
    /\ ask # None =>
        /\ \A p \in DOMAIN toReceiver :
            toReceiver[p].kind = "digest" => toReceiver[p].id # write_job.id
        /\ \A q \in DOMAIN toSender :
            toSender[q].kind = "confirm" => toSender[q].id # write_job.id

\* What is under way about a file is about its present version; blocks are
\* of one file, whose question was answered, before the file of a digest.
Wire ==
    /\ \A p \in DOMAIN toReceiver : toReceiver[p].kind \in {"digest", "block"} =>
        toReceiver[p].num < N /\ toReceiver[p].ver = src[toReceiver[p].num]
    /\ \A q \in DOMAIN toSender : toSender[q].kind = "confirm" => toSender[q].num < N
    /\ \A p \in DOMAIN toReceiver : toReceiver[p].kind = "block" =>
        /\ \A q \in DOMAIN toSender :
            toSender[q].kind = "confirm" => toSender[q].id # toReceiver[p].id
        /\ ask # None => ~JobIs(toReceiver[p].id)
        /\ \A i \in DOMAIN read_jobs : read_jobs[i].id = toReceiver[p].id =>
            IF read_jobs[i].confirmed THEN toReceiver[p].num = read_jobs[i].num
            ELSE toReceiver[p].num < read_jobs[i].num
        /\ \A q \in DOMAIN toReceiver :
            toReceiver[q].kind = "block" /\ toReceiver[q].id = toReceiver[p].id
                => toReceiver[q].num = toReceiver[p].num
        /\ \A q \in DOMAIN toReceiver :
            toReceiver[q].kind = "digest" /\ toReceiver[q].id = toReceiver[p].id
                => toReceiver[p].num < toReceiver[q].num
        /\ toReceiver[p].idx <= Blocks[toReceiver[p].num]

\* After an end of job or an error no block of the job follows.
Ended ==
    \A p \in DOMAIN toReceiver : toReceiver[p].kind \in {"done", "error"} =>
        /\ \A q \in DOMAIN toSender :
            toSender[q].kind = "confirm" => toSender[q].id # toReceiver[p].id
        /\ ask # None => ~JobIs(toReceiver[p].id)
        /\ \A i \in DOMAIN read_jobs :
            read_jobs[i].id = toReceiver[p].id => ~read_jobs[i].confirmed
        /\ \A q \in DOMAIN toReceiver :
            q > p /\ toReceiver[q].kind = "block" => toReceiver[q].id # toReceiver[p].id

\* What the reader sends was agreed to: it is not skipped, and the writer
\* has the digest of that file.
Agreed ==
    write_job # None =>
        /\ \A i \in DOMAIN read_jobs :
            JobIs(read_jobs[i].id) /\ read_jobs[i].confirmed =>
                read_jobs[i].num \notin skips /\ write_job.digest = src[read_jobs[i].num]
        /\ \A q \in DOMAIN toSender : toSender[q].kind = "confirm" /\ JobIs(toSender[q].id) =>
            /\ toSender[q].skip <=> toSender[q].num \in skips
            /\ write_job.digest = src[toSender[q].num]
        /\ \A p \in DOMAIN toReceiver : toReceiver[p].kind = "block" /\ JobIs(toReceiver[p].id) =>
            toReceiver[p].num \notin skips /\ write_job.digest = src[toReceiver[p].num]
        /\ ask # None => write_job.digest = src[ask]

\* The writer is never ahead of the reader by more than a file it skips.
Progress ==
    write_job # None =>
        /\ write_job.num <= N
        /\ \A p \in DOMAIN toReceiver :
            toReceiver[p].kind \in {"digest", "block"} /\ JobIs(toReceiver[p].id)
                => toReceiver[p].num >= write_job.num
        /\ ask # None => ask >= write_job.num
        /\ \A q \in DOMAIN toSender : toSender[q].kind = "confirm" /\ JobIs(toSender[q].id) =>
            IF toSender[q].skip THEN toSender[q].num + 1 >= write_job.num
            ELSE toSender[q].num >= write_job.num
        /\ \A i \in DOMAIN read_jobs : JobIs(read_jobs[i].id) =>
            \/ read_jobs[i].num >= write_job.num
            \/ read_jobs[i].num + 1 = write_job.num /\ read_jobs[i].waiting
                            /\ ~read_jobs[i].confirmed

\* The files skipped are behind what the reader still asks about.
Behind ==
    write_job # None =>
        /\ write_job.num \notin skips
        /\ \A g \in skips :
            /\ \A p \in DOMAIN toReceiver :
                toReceiver[p].kind = "digest" /\ JobIs(toReceiver[p].id) => g < toReceiver[p].num
            /\ ask # None => g < ask
            /\ \A q \in DOMAIN toSender :
                toSender[q].kind = "send" /\ JobIs(toSender[q].id) => g < toSender[q].num
            /\ write_job.last => g < write_job.num
            /\ \A i \in DOMAIN read_jobs : JobIs(read_jobs[i].id) =>
                \/ g < read_jobs[i].num
                \/ g = read_jobs[i].num /\ read_jobs[i].waiting /\ ~read_jobs[i].confirmed

\* What is known of the file s that the writer has open: f.download of its
\* current file, or a file that already has its name after a failure.
Open(s) ==
    /\ write_job.listed
    /\ s < N
    /\ s <= write_job.num
    /\ s \notin skips
    /\ s # write_job.num => disk.final[s] # None /\ {s, write_job.num} \subseteq suspect
    /\ s = write_job.num =>
        /\ disk.download[s] # None => disk.digest[s] = src[s]
        /\ \A p \in DOMAIN toReceiver :
            toReceiver[p].kind = "digest" /\ JobIs(toReceiver[p].id) => toReceiver[p].num > s
        /\ ask # None => ask > s
        /\ \A q \in DOMAIN toSender :
            toSender[q].kind = "confirm" /\ toSender[q].skip /\ JobIs(toSender[q].id)
                => toSender[q].num > s
        /\ \A i \in DOMAIN read_jobs : JobIs(read_jobs[i].id) =>
            read_jobs[i].num > s \/ (read_jobs[i].num = s /\ read_jobs[i].waiting)
        /\ disk.download[s] = None =>
            /\ disk.final[s] # None
            /\ s \in suspect
            /\ \A p \in DOMAIN toReceiver :
                toReceiver[p].kind = "block" /\ JobIs(toReceiver[p].id) => toReceiver[p].num > s
            /\ \A i \in DOMAIN read_jobs : JobIs(read_jobs[i].id) => read_jobs[i].num > s

\* data_stream of the writer, when it has one.
Stream == write_job # None /\ write_job.stream # None => Open(write_job.stream)

\* The files before num are whole, skipped or suspect.
Kept(num, sk) == \A f \in Files : f < num =>
    f \in sk \/ f \in suspect \/ FC!Whole(f, disk.final[f])

\* What a job, or the job saved for the next login, is past is there.
Keeps ==
    /\ write_job # None => Kept(write_job.num, skips)
    /\ saved # None => Kept(saved.num, saved.skips) /\ saved.num <= N
                        /\ \A g \in saved.skips : g < saved.num

\* f.download is a beginning of one version of the source.
Sound ==
    \A f \in Files : f \notin suspect /\ disk.download[f] # None =>
        /\ disk.download[f].ok
        /\ disk.download[f].len <= Blocks[f]
        /\ disk.download[f].len > 0 => disk.download[f].ver > 0

\* f.download is one that a resumed job will continue, once it is asked.
Continuable(f) ==
    /\ write_job.resume
    /\ disk.digest[f] = src[f]
    /\ disk.download[f].len > 0
    /\ ask # f
    /\ \A p \in DOMAIN toReceiver :
        toReceiver[p].kind = "block" /\ JobIs(toReceiver[p].id) => toReceiver[p].num # f
    /\ \A q \in DOMAIN toSender :
        toSender[q].kind = "confirm" /\ JobIs(toSender[q].id) => toSender[q].num # f
    /\ \A i \in DOMAIN read_jobs :
        JobIs(read_jobs[i].id) /\ read_jobs[i].num = f => ~read_jobs[i].confirmed

\* While a job runs, only its current file has an f.download.
Parts ==
    write_job # None /\ ~write_job.last =>
        \A f \in Files : f \notin suspect /\ disk.download[f] # None =>
            f = write_job.num /\ (write_job.stream = f \/ Continuable(f))

\* Blocks the writer holds of f, if f is the file it writes.
Held(f) ==
    IF write_job.stream = f /\ write_job.num = f /\ disk.download[f] # None
    THEN disk.download[f].len ELSE 0

\* The place of a block in its file; the mark of the end comes last.
Key(m) == IF m.idx = 0 THEN Blocks[m.num] + 1 ELSE m.idx

\* The response at place p is a block of the writer's job.
BlockAt(p) == toReceiver[p].kind = "block" /\ JobIs(toReceiver[p].id)

\* The blocks under way continue what the writer holds, without a gap.
InOrder ==
    /\ \A p, q \in DOMAIN toReceiver :
        BlockAt(p) /\ BlockAt(q) /\ p < q /\ toReceiver[p].num \notin suspect
            => Key(toReceiver[p]) < Key(toReceiver[q])
    /\ \A p \in DOMAIN toReceiver : BlockAt(p) /\ toReceiver[p].num \notin suspect =>
        /\ Key(toReceiver[p]) > Held(toReceiver[p].num)
        /\ \A k \in Held(toReceiver[p].num) + 1 .. Key(toReceiver[p]) :
            \E q \in DOMAIN toReceiver : q <= p /\ BlockAt(q) /\ Key(toReceiver[q]) = k

\* The reader is where the blocks under way end, or where an answer under
\* way sends it.
Top ==
    /\ \A i \in DOMAIN read_jobs :
        JobIs(read_jobs[i].id) /\ read_jobs[i].confirmed /\ read_jobs[i].num \notin suspect =>
            /\ read_jobs[i].stream \in Held(read_jobs[i].num) .. Blocks[read_jobs[i].num]
            /\ \A p \in DOMAIN toReceiver :
                BlockAt(p) => Key(toReceiver[p]) <= read_jobs[i].stream
            /\ \A k \in Held(read_jobs[i].num) + 1 .. read_jobs[i].stream :
                \E q \in DOMAIN toReceiver : BlockAt(q) /\ Key(toReceiver[q]) = k
    /\ \A q \in DOMAIN toSender :
        toSender[q].kind = "confirm" /\ JobIs(toSender[q].id) /\ ~toSender[q].skip
            /\ toSender[q].num \notin suspect
        => toSender[q].offset = Held(toSender[q].num)

\* The rest of file h is under way, or the writer has all of it.
Arriving(h) ==
    \/ \E p \in DOMAIN toReceiver :
        BlockAt(p) /\ toReceiver[p].num = h /\ toReceiver[p].idx = 0
    \/ /\ write_job.num = h /\ write_job.stream = h
       /\ disk.download[h] # None
       /\ disk.download[h].len = Blocks[h]

\* Nothing is missing of the files from the writer's to the one before n.
Clear(n) == \A h \in Files : write_job.num <= h /\ h < n =>
    h \in suspect \/ h \in skips \/ Arriving(h)

\* The writer learns of an error before place n.
ErrorBefore(n) == \E p \in DOMAIN toReceiver :
    p < n /\ toReceiver[p].kind = "error" /\ JobIs(toReceiver[p].id)

\* The reader has left no file behind, unless it told of an error.
Reached ==
    write_job # None =>
        /\ \A i \in DOMAIN read_jobs :
            JobIs(read_jobs[i].id) => Clear(read_jobs[i].num) \/ ErrorBefore(Len(toReceiver) + 1)
        /\ \A p \in DOMAIN toReceiver :
            /\ BlockAt(p) => Clear(toReceiver[p].num)
            /\ toReceiver[p].kind = "done" /\ JobIs(toReceiver[p].id) => Clear(N) \/ ErrorBefore(p)

\* The parts of the invariant about the messages and the reading side.
Protocol == Ids /\ Fresh /\ Question /\ OneQuestion /\ Wire /\ Ended

\* The parts of the invariant about the writer and its file.
Writer == Agreed /\ Progress /\ Behind /\ Stream /\ Parts /\ InOrder /\ Top /\ Reached

\* The parts of the invariant about the directory.
Disk == Keeps /\ Sound /\ DigestTells /\ DoneMeansDelivered

\* The inductive invariant.
Inv == TypeOK /\ Protocol /\ Writer /\ Disk

-----------------------------------------------------------------------------
(***************************************************************************)
(* Nobody waits in vain.                                                   *)
(***************************************************************************)

\* An answer for the job with that id is under way or to come, or the job
\* goes on after an error that the writer heard of.
AnswerComes(id) ==
    \/ Pending({"digest"}, id, toReceiver)
    \/ Pending({"confirm", "cancel"}, id, toSender)
    \/ ask # None /\ JobIs(id)
    \/ id \in failed

\* A reading job that waits gets an answer.
ReaderWaits ==
    \A i \in DOMAIN read_jobs :
        read_jobs[i].waiting /\ ~read_jobs[i].confirmed => AnswerComes(read_jobs[i].id)

\* The writer's job has somebody who will end it.
WriterWaits ==
    write_job # None /\ ~write_job.last =>
        \/ \E i \in DOMAIN read_jobs : JobIs(read_jobs[i].id)
        \/ Pending({"send"}, write_job.id, toSender)
        \/ Pending({"done", "error"}, write_job.id, toReceiver)

\* A reading job that is not the writer's will be cancelled, or goes on
\* after an error; the same will become of a request that is under way.
Orphans ==
    /\ \A i \in DOMAIN read_jobs : ~JobIs(read_jobs[i].id) =>
        Pending({"cancel"}, read_jobs[i].id, toSender) \/ read_jobs[i].id \in failed
    /\ \A q \in DOMAIN toSender : toSender[q].kind = "send" /\ ~JobIs(toSender[q].id) =>
        \E p \in DOMAIN toSender :
            p > q /\ toSender[p].kind = "cancel" /\ toSender[p].id = toSender[q].id
    /\ \A q \in DOMAIN toSender : toSender[q].kind = "cancel" => ~JobIs(toSender[q].id)

\* A job whose end is under way and that is still read goes on after an error.
EndsOnce ==
    \A p \in DOMAIN toReceiver, i \in DOMAIN read_jobs :
        toReceiver[p].kind \in {"done", "error"} /\ toReceiver[p].id = read_jobs[i].id
            => toReceiver[p].kind = "error" /\ read_jobs[i].id \in failed

\* The list of files is under way before anything that needs it.
ListFirst ==
    write_job # None /\ ~write_job.listed =>
        /\ \A p \in DOMAIN toReceiver :
            toReceiver[p].kind \in {"digest", "block"} /\ JobIs(toReceiver[p].id) =>
                \E q \in DOMAIN toReceiver :
                    q < p /\ toReceiver[q].kind = "dir" /\ toReceiver[q].id = toReceiver[p].id
        /\ \A i \in DOMAIN read_jobs :
            JobIs(read_jobs[i].id) => Pending({"dir"}, read_jobs[i].id, toReceiver)

\* What makes NobodyWaitsInVain inductive, given Inv.
Alive == ReaderWaits /\ WriterWaits /\ Orphans /\ EndsOnce /\ ListFirst

=============================================================================
