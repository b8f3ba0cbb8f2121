------------------------------ MODULE RunLogs ------------------------------
(***************************************************************************)
(* The log of one run that is built (no stages): the build tasks execute   *)
(* the build command on the host or in a container and append its lines to *)
(* a capped Redis stream, the build that decides the run moves the stream  *)
(* to an archive and drops it, and meanwhile readers page through the      *)
(* history or follow the stream.  There may be two build tasks: a checkout *)
(* that is delivered again enqueues a second one.  An entry is its id; ids *)
(* grow in the order of the appends.                                       *)
(***************************************************************************)
EXTENDS Integers, Sequences, FiniteSets, SequencesExt

CONSTANTS
    Builds,    \* the build tasks
    Runtimes,  \* "host", "docker"
    MaxIds,    \* bound on the entries appended
    MaxLen,    \* MAXLEN of the stream, 10000 in the code
    Page,      \* PageSize of the archiver, 500 in the code
    Count,     \* count of a history request, at most 1000
    MaxLogFaults  \* bound on crashes and failed calls

ASSUME RunLogsAssumption ==
    /\ Runtimes \subseteq {"host", "docker"}
    /\ {MaxIds, MaxLen, Page, Count} \subseteq Nat \ {0}
    /\ MaxLogFaults \in Nat

VARIABLES
    runtime,
    run,        \* runs.status
    build,      \* the build tasks
    container,  \* the container of a build
    stream,     \* logs:run:<id>
    last,       \* the id of the last entry appended
    archive,    \* runs/<id>/logs.ndjson.gz, <<>> if there is none
    reader,     \* a client that pages through the history, or the logs panel,
                \* which reads the history once and then follows the stream
    logFaults,
    \* history
    writer,     \* the build that appended an entry
    trimmed,    \* entries the cap removed
    gone,       \* entries a Drop removed that no archive has
    late        \* an entry was appended after a Drop

logState   == <<runtime, run, build, container, stream, last, archive, reader, logFaults>>
logHistory == <<writer, trimmed, gone, late>>
logVars    == <<logState, logHistory>>

Terminal == {"success", "failed", "canceled"}

\* tail: the command has printed a line it has not ended.
Fresh == [pc |-> "queued", tail |-> FALSE, exit |-> "", from |-> 0, out |-> <<>>]

BuildPcs == {"queued", "pull", "create", "start", "exec", "remove", "mark", "system", "len", "page",
        "put", "drop", "done"}

LogTypeOK ==
    /\ runtime \in {"host", "docker"} /\ run \in {"running"} \cup Terminal
    /\ \A b \in Builds : /\ build[b].pc \in BuildPcs /\ build[b].exit \in {"", "ok", "failed", "timeout"}
                         /\ build[b].from \in 0 .. last /\ Range(build[b].out) \subseteq 1 .. last
    /\ container \in [Builds -> {"none", "created", "running", "exited"}]
    /\ last \in 0 .. MaxIds /\ Range(stream) \subseteq 1 .. last /\ Range(archive) \subseteq 1 .. last
    /\ reader.pc \in {"page", "panel", "follow", "closed"} /\ reader.next \in 0 .. last
    /\ reader.got \cup trimmed \cup gone \subseteq 1 .. last

LogInit ==
    /\ runtime \in Runtimes
    /\ run = "running"
    /\ build = [b \in Builds |-> Fresh]
    /\ container = [b \in Builds |-> "none"]
    /\ stream = <<>> /\ last = 0 /\ archive = <<>>
    /\ reader \in {[pc |-> pc, next |-> 0, got |-> {}] : pc \in {"page", "panel"}}
    /\ logFaults = 0
    /\ writer = <<>> /\ trimmed = {} /\ gone = {} /\ late = FALSE

LogFault == logFaults < MaxLogFaults /\ logFaults' = logFaults + 1

BuildAt(b, pc) == build[b].pc = pc
BuildGoto(b, pc) == build' = [build EXCEPT ![b].pc = pc]

-----------------------------------------------------------------------------
(* Writing                                                                 *)

\* XADD MAXLEN ~: the cap removes whole blocks of the oldest entries and keeps
\* at least MaxLen.
Append1(b) ==
    /\ last < MaxIds
    /\ last' = last + 1
    /\ writer' = Append(writer, b)
    /\ late' = (late \/ (archive # <<>> /\ stream = <<>>))
    /\ LET full == Append(stream, last + 1)
       IN  \E k \in 0 .. (IF Len(full) > MaxLen THEN Len(full) - MaxLen ELSE 0) :
              /\ stream' = SubSeq(full, k + 1, Len(full))
              /\ trimmed' = trimmed \cup {full[i] : i \in 1 .. k}

NoAppend == UNCHANGED <<stream, last, writer, trimmed, late>>

\* Writer.Append is best effort: a failed XADD is logged.
Line(b) ==
    \/ Append1(b) /\ UNCHANGED logFaults
    \/ LogFault /\ NoAppend

\* A task of a run that is over is done; a run without a build command is a
\* success and one without a workspace or a log file failed, neither archived.
Start(b) ==
    /\ BuildAt(b, "queued")
    /\ \/ /\ run \in Terminal
          /\ BuildGoto(b, "done")
          /\ NoAppend /\ UNCHANGED <<run, logFaults>>
       \/ /\ run = "running"
          /\ \E end \in {"success", "failed"} : run' = end
          /\ BuildGoto(b, "done")
          /\ NoAppend /\ UNCHANGED logFaults
       \/ /\ run = "running"
          /\ Line(b)
          /\ BuildGoto(b, IF runtime = "docker" THEN "pull" ELSE "exec")
          /\ UNCHANGED run
    /\ UNCHANGED <<runtime, container, archive, reader, gone>>

Ends(b, exit, pc) == build' = [build EXCEPT ![b].exit = exit, ![b].pc = pc]

\* Executor.Run up to the start of the container; an error is the build's.
\* The clean-up is deferred once the container is created.
Prepare(b) ==
    /\ build[b].pc \in {"pull", "create", "start"}
    /\ CASE BuildAt(b, "pull")   -> /\ BuildGoto(b, "create")
                               /\ UNCHANGED container
         [] BuildAt(b, "create") -> /\ BuildGoto(b, "start")
                               /\ container' = [container EXCEPT ![b] = "created"]
         [] BuildAt(b, "start")  -> /\ BuildGoto(b, "exec")
                               /\ container' = [container EXCEPT ![b] = "running"]
    /\ UNCHANGED <<runtime, run, stream, last, archive, reader, logFaults, logHistory>>

PrepareFails(b) ==
    /\ build[b].pc \in {"pull", "create", "start"}
    /\ LogFault
    /\ \E exit \in {"failed", "timeout"} : Ends(b, exit, IF BuildAt(b, "start") THEN "remove" ELSE "mark")
    /\ UNCHANGED <<runtime, run, container, stream, last, archive, reader, logHistory>>

\* The command prints: a writer holds a line back until it ends.
PrintLine(b) ==
    /\ BuildAt(b, "exec")
    /\ \/ /\ Line(b)
          /\ build' = [build EXCEPT ![b].tail = FALSE]
       \/ /\ ~build[b].tail
          /\ build' = [build EXCEPT ![b].tail = TRUE]
          /\ NoAppend /\ UNCHANGED logFaults
    /\ UNCHANGED <<runtime, run, container, archive, reader, gone>>

\* tailLogs flushes what a line without an end holds; after the timeout the
\* context of Append has expired.
Flush(b, exit) ==
    IF build[b].tail /\ exit # "timeout" THEN Line(b) ELSE NoAppend /\ UNCHANGED logFaults

\* The command exits or is killed at the timeout; a line that has not ended is
\* dropped with its lineStreamWriter.
ExitHost(b) ==
    /\ BuildAt(b, "exec") /\ runtime = "host"
    /\ \E exit \in {"ok", "failed", "timeout"} :
        build' = [build EXCEPT ![b].exit = exit, ![b].tail = FALSE, ![b].pc = "mark"]
    /\ NoAppend
    /\ UNCHANGED <<runtime, run, container, archive, reader, logFaults, gone>>

\* The container exits or is stopped at the timeout, then its output has ended.
ExitDocker(b) ==
    /\ BuildAt(b, "exec") /\ runtime = "docker"
    /\ \E exit \in {"ok", "failed", "timeout"} :
        /\ build' = [build EXCEPT ![b].exit = exit, ![b].tail = FALSE, ![b].pc = "remove"]
        /\ Flush(b, exit)
    /\ container' = [container EXCEPT ![b] = "exited"]
    /\ UNCHANGED <<runtime, run, archive, reader, gone>>

\* The deferred stop and remove, with a context of their own, errors ignored.
RemoveContainer(b) ==
    /\ BuildAt(b, "remove")
    /\ \/ /\ container' = [container EXCEPT ![b] = "none"]
          /\ UNCHANGED logFaults
       \/ /\ LogFault
          /\ UNCHANGED container
    /\ BuildGoto(b, "mark")
    /\ UNCHANGED <<runtime, run, stream, last, archive, reader, logHistory>>

\* MarkFailed or MarkSuccess.  A timeout is not archived; the transition of a
\* run that is over is an error, and the task is done when it is delivered again.
BuildMark(b) ==
    /\ BuildAt(b, "mark")
    /\ IF run \in Terminal
       THEN BuildGoto(b, "done") /\ UNCHANGED run
       ELSE /\ run' = IF build[b].exit = "ok" THEN "success" ELSE "failed"
            /\ BuildGoto(b, IF build[b].exit = "timeout" THEN "done" ELSE "system")
    /\ UNCHANGED <<runtime, container, stream, last, archive, reader, logFaults, logHistory>>

\* "[SUCCESS] ..." or "[FAILED] ..."
System(b) ==
    /\ BuildAt(b, "system")
    /\ Line(b)
    /\ BuildGoto(b, "len")
    /\ UNCHANGED <<runtime, run, container, archive, reader, gone>>

\* The run is cancelled; the command goes on.
Cancel ==
    /\ run = "running"
    /\ run' = "canceled"
    /\ UNCHANGED <<runtime, build, container, stream, last, archive, reader, logFaults, logHistory>>

\* The worker dies; the task is delivered again, its container stays.
BuildCrash(b) ==
    /\ build[b].pc \notin {"queued", "done"}
    /\ LogFault
    /\ build' = [build EXCEPT ![b] = Fresh]
    /\ container' = [container EXCEPT ![b] = "none"]
    /\ UNCHANGED <<runtime, run, stream, last, archive, reader, writer, trimmed, gone, late>>

-----------------------------------------------------------------------------
(* ArchiveAndDrop, best effort                                             *)

ArchiveLen(b) ==
    /\ BuildAt(b, "len")
    /\ build' = [build EXCEPT ![b].pc = IF stream = <<>> THEN "done" ELSE "page",
                              ![b].from = 0, ![b].out = <<>>]
    /\ UNCHANGED <<runtime, run, container, stream, last, archive, reader, logFaults, logHistory>>

First(s, n) == SubSeq(s, 1, IF Len(s) < n THEN Len(s) ELSE n)
\* The entries of s, in the order of their ids, after an id ("(" id) or from it on.
After(s, id) ==
    LET n == CHOOSE m \in 0 .. Len(s) : (m > 0 => s[m] <= id) /\ (m < Len(s) => s[m + 1] > id)
    IN  SubSeq(s, n + 1, Len(s))
From(s, id) == After(s, id - 1)

\* A page that goes on from the entry it has read ahead.
PageAhead(b) ==
    /\ BuildAt(b, "page")
    /\ LET read == First(After(stream, build[b].from), Page + 1)
           more == Len(read) > Page
       IN  build' = [build EXCEPT ![b].pc = IF more THEN "page" ELSE "put",
                                  ![b].out = @ \o First(read, Page),
                                  ![b].from = IF more THEN read[Len(read)] ELSE @]
    /\ UNCHANGED <<runtime, run, container, stream, last, archive, reader, logFaults, logHistory>>

\* ReadRange of one entry more than a page; the next page starts after the last
\* entry of this one.
ArchivePage(b) ==
    /\ BuildAt(b, "page")
    /\ LET read == First(After(stream, build[b].from), Page + 1)
           more == Len(read) > Page
       IN  build' = [build EXCEPT ![b].pc = IF more THEN "page" ELSE "put",
                                  ![b].out = @ \o First(read, Page),
                                  ![b].from = IF more THEN read[Page] ELSE @]
    /\ UNCHANGED <<runtime, run, container, stream, last, archive, reader, logFaults, logHistory>>

\* Backend.Put replaces the object, or fails and nothing is dropped.
ArchivePut(b) ==
    /\ BuildAt(b, "put")
    /\ \/ /\ archive' = build[b].out
          /\ BuildGoto(b, "drop")
          /\ UNCHANGED logFaults
       \/ /\ LogFault
          /\ BuildGoto(b, "done")
          /\ UNCHANGED archive
    /\ UNCHANGED <<runtime, run, container, stream, last, reader, logHistory>>

ArchiveDrop(b) ==
    /\ BuildAt(b, "drop")
    /\ \/ /\ stream' = <<>>
          /\ gone' = gone \cup (Range(stream) \ Range(archive))
          /\ UNCHANGED logFaults
       \/ /\ LogFault
          /\ UNCHANGED <<stream, gone>>
    /\ build' = [build EXCEPT ![b] = [Fresh EXCEPT !.pc = "done"]]
    /\ UNCHANGED <<runtime, run, container, last, archive, reader, writer, trimmed, late>>

-----------------------------------------------------------------------------
(* Reading                                                                 *)

\* sliceEntriesFrom: what follows the entry `from`, everything if there is none.
Slice(all, from) == IF from \in Range(all) THEN After(all, from) ELSE all

\* The history with source=auto: the stream if it has an entry, else the archive.
\* `from` is inclusive on the stream.
History(from) ==
    LET live == IF from = 0 THEN stream ELSE From(stream, from)
    IN  First(IF live # <<>> THEN live ELSE Slice(archive, from), Count + 1)

\* respondHistory: at most Count entries; next is the id of the last one.
NextOf(read) == read[Len(First(read, Count))]

\* A client that asks for the next page with from = next.
PageOn ==
    /\ reader.pc = "page"
    /\ LET read == History(reader.next)
       IN  /\ read # <<>>
           /\ reader' = [reader EXCEPT !.next = NextOf(read), !.got = @ \cup Range(First(read, Count))]
    /\ UNCHANGED <<runtime, run, build, container, stream, last, archive, logFaults, logHistory>>

\* The panel loads the history, then follows the stream if the run goes on.
PanelLoads ==
    /\ reader.pc = "panel"
    /\ LET read == History(0)
       IN  reader' = [pc |-> IF run \in Terminal THEN "closed" ELSE "follow",
                      next |-> IF read = <<>> THEN 0 ELSE NextOf(read), got |-> Range(First(read, Count))]
    /\ UNCHANGED <<runtime, run, build, container, stream, last, archive, logFaults, logHistory>>

\* A Follow that starts with what is new.
FollowNew ==
    /\ reader.pc = "follow" /\ stream # <<>>
    /\ LET e == stream[Len(stream)]
       IN  reader' = [reader EXCEPT !.next = e, !.got = @ \cup {e}]
    /\ UNCHANGED <<runtime, run, build, container, stream, last, archive, logFaults, logHistory>>

\* Reader.Follow: XREAD of what comes after the last id.
XRead(next) == After(stream, next)

\* The panel gets a batch entry by entry.
Follow ==
    /\ reader.pc = "follow"
    /\ LET read == XRead(reader.next)
       IN  \E n \in 1 .. Len(read) :
            reader' = [reader EXCEPT !.next = read[n], !.got = @ \cup Range(First(read, n))]
    /\ UNCHANGED <<runtime, run, build, container, stream, last, archive, logFaults, logHistory>>

\* The run is over (or Redis fails): the panel closes the stream.
PanelCloses ==
    /\ reader.pc = "follow"
    /\ reader' = [reader EXCEPT !.pc = "closed"]
    /\ UNCHANGED <<runtime, run, build, container, stream, last, archive, logFaults, logHistory>>

-----------------------------------------------------------------------------
LogNext ==
    \/ \E b \in Builds :
        \/ Start(b) \/ Prepare(b) \/ PrepareFails(b) \/ PrintLine(b) \/ ExitHost(b) \/ ExitDocker(b)
        \/ RemoveContainer(b) \/ BuildMark(b) \/ System(b) \/ BuildCrash(b)
        \/ ArchiveLen(b) \/ ArchivePage(b) \/ ArchivePut(b) \/ ArchiveDrop(b)
    \/ Cancel \/ PageOn \/ PanelLoads \/ Follow \/ PanelCloses

LogSpec == LogInit /\ [][LogNext]_logVars

-----------------------------------------------------------------------------
(* Properties                                                              *)

\* Moving the log to the archive loses nothing: an entry that was appended and
\* not trimmed is in the stream or in the archive, page after page, except for
\* entries of another build of the run that come in between the last page and
\* the Drop.  The archive is in the order of the appends.
ArchiveLosesNothing ==
    /\ \A e \in 1 .. last : e \in Range(stream) \cup Range(archive) \cup trimmed \cup gone
    /\ \A e \in gone : \E b \in Builds : b # writer[e] /\ build[b].pc = "done"
    /\ \A i \in 1 .. Len(archive) - 1 : archive[i] < archive[i + 1]

\* A reader has seen every entry up to where it is that was kept: a client that
\* asks for the next page with the next it was given, even when the log moves
\* from the stream to the archive between two pages, and the panel, whose stream
\* goes on where its history ended.  (A build that appends after the Drop starts
\* a new stream, which hides the archive.)
ReadersSeeNoHole ==
    late \/ \A e \in 1 .. reader.next : e \in reader.got \cup trimmed \cup gone

=============================================================================
