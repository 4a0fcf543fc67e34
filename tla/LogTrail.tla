------------------------------ MODULE LogTrail ------------------------------
(* The daemon's own log: the file it appends to, the tail it keeps in      *)
(* memory, and the streams that follow it.                                 *)
(*                                                                         *)
(* Every thread logs through the same two layers, in this order: the file  *)
(* layer, which reopens the file when the path no longer names it, and the *)
(* hub, which numbers the line, keeps it in the tail and only then, with   *)
(* its lock released, sends it to the streams.  A rotator renames the file *)
(* at any time.                                                            *)
EXTENDS Naturals, FiniteSets, SequencesExt

CONSTANTS Loggers,        \* the threads that log
          Streams,        \* the requests for /api/v1/logs/stream
          BacklogLines, ChannelLines,
          AskedLines,     \* the backlog a stream asks for
          MaxLines, MaxFiles

ASSUME TrailAssumption ==
  /\ BacklogLines \in Nat \ {0} /\ ChannelLines \in Nat \ {0}
  /\ AskedLines \in SUBSET Nat /\ MaxLines \in Nat /\ MaxFiles \in Nat

VARIABLES
  logger,     \* what each thread is doing, and the line it logs
  nextSeq,    \* HubState::next_seq
  tailLines,  \* HubState::backlog, as sequence numbers
  stream,     \* each stream
  sink,       \* LOG_FILE: the open file, and the identity its path had
  sinkLock,   \* who holds LOG_FILE
  opening,    \* the sink the holder, or the reload, is opening
  reload,     \* where ensure_log_file is on a reload
  pathFile,   \* the file logging.path names; 0 is none
  fileCount   \* how many files have been created

trailVars == <<logger, nextSeq, tailLines, stream, sink, sinkLock, opening,
               reload, pathFile, fileCount>>
hubVars == <<nextSeq, tailLines, stream>>
fileVars == <<sink, sinkLock, opening, reload, pathFile, fileCount>>

NoSink == [file |-> 0, identity |-> 0]
NoStream == [state |-> "none", asked |-> 0, first |-> 0, next |-> 0,
             queue |-> <<>>, lagged |-> FALSE, gaps |-> 0, shown |-> <<>>]
Logging == {t \in Loggers : logger[t].at # "idle"}

----------------------------------------------------------------------------
(* The file layer.                                                          *)

\* A thread begins to log a line.
Log(t) ==
  /\ logger[t].at = "idle"
  /\ nextSeq + Cardinality(Logging) < MaxLines
  /\ logger' = [logger EXCEPT ![t].at = "file"]
  /\ UNCHANGED <<hubVars, fileVars>>

\* is_current: the path still has the identity it had when it was opened.  A
\* path that could not be examined then is never current.
IsCurrent(s) == s.identity # 0 /\ pathFile = s.identity

SinkIsFree == sinkLock = "free"

\* FileWriter::write, under LOG_FILE: no sink discards the line, a current sink
\* takes it, any other is reopened first.
WriteLine(t) ==
  /\ logger[t].at = "file"
  /\ SinkIsFree
  /\ UNCHANGED <<hubVars, sink, opening, reload, pathFile, fileCount>>
  /\ IF sink = NoSink \/ IsCurrent(sink)
     THEN /\ logger' = [logger EXCEPT ![t].at = "hub"]
          /\ UNCHANGED sinkLock
     ELSE /\ logger' = [logger EXCEPT ![t].at = "reopen"]
          /\ sinkLock' = t

\* LogSink::open, its first half: create(true) and append(true).
OpenPath(who) ==
  \/ /\ pathFile # 0
     /\ opening' = [opening EXCEPT ![who].file = pathFile]
     /\ UNCHANGED <<pathFile, fileCount>>
  \/ /\ pathFile = 0
     /\ fileCount < MaxFiles
     /\ fileCount' = fileCount + 1
     /\ pathFile' = fileCount'
     /\ opening' = [opening EXCEPT ![who].file = fileCount']

Reopen(t) ==
  /\ logger[t].at = "reopen"
  /\ OpenPath(t)
  /\ logger' = [logger EXCEPT ![t].at = "identify"]
  /\ UNCHANGED <<hubVars, sink, sinkLock, reload>>

\* The path cannot be opened: the old sink stays and the line is an error.
ReopenFails(t) ==
  /\ logger[t].at = "reopen"
  /\ logger' = [logger EXCEPT ![t].at = "hub"]
  /\ sinkLock' = "free"
  /\ UNCHANGED <<hubVars, sink, opening, reload, pathFile, fileCount>>

\* file_identity: what the path names now, which need not be what was opened.
FileIdentity(who) == pathFile

Identify(t) ==
  /\ logger[t].at = "identify"
  /\ sink' = [opening[t] EXCEPT !.identity = FileIdentity(t)]
  /\ logger' = [logger EXCEPT ![t].at = "hub"]
  /\ opening' = [opening EXCEPT ![t] = NoSink]
  /\ sinkLock' = "free"
  /\ UNCHANGED <<hubVars, reload, pathFile, fileCount>>

\* ensure_log_file on a reload: open and identify, both before LOG_FILE is
\* taken, then replace the sink under it; or detach it.
Attach ==
  /\ reload = "idle"
  /\ OpenPath("reload")
  /\ reload' = "identify"
  /\ UNCHANGED <<hubVars, logger, sink, sinkLock>>

IdentifyAttached ==
  /\ reload = "identify"
  /\ opening' = [opening EXCEPT !["reload"].identity = FileIdentity("reload")]
  /\ reload' = "replace"
  /\ UNCHANGED <<hubVars, logger, sink, sinkLock, pathFile, fileCount>>

Attached ==
  /\ reload = "replace"
  /\ SinkIsFree
  /\ sink' = opening["reload"]
  /\ opening' = [opening EXCEPT !["reload"] = NoSink]
  /\ reload' = "idle"
  /\ UNCHANGED <<hubVars, logger, sinkLock, pathFile, fileCount>>

Detach ==
  /\ reload = "idle"
  /\ SinkIsFree
  /\ sink # NoSink
  /\ sink' = NoSink
  /\ UNCHANGED <<hubVars, logger, sinkLock, opening, reload, pathFile, fileCount>>

\* The rotator renames the file away, and may put an empty one in its place.
Rotate ==
  /\ pathFile # 0
  /\ pathFile' = 0
  /\ UNCHANGED <<hubVars, logger, sink, sinkLock, opening, reload, fileCount>>

Recreate ==
  /\ pathFile = 0
  /\ fileCount < MaxFiles
  /\ fileCount' = fileCount + 1
  /\ pathFile' = fileCount'
  /\ UNCHANGED <<hubVars, logger, sink, sinkLock, opening, reload>>

----------------------------------------------------------------------------
(* The hub.                                                                 *)

\* LogHub::push under the hub's lock: the line gets its number and a place in
\* the bounded tail.
Push(t) ==
  /\ logger[t].at = "hub"
  /\ logger' = [logger EXCEPT ![t] = [at |-> "send", seq |-> nextSeq]]
  /\ nextSeq' = nextSeq + 1
  /\ tailLines' = Append(IF Len(tailLines) = BacklogLines THEN Tail(tailLines) ELSE tailLines,
                         nextSeq)
  /\ UNCHANGED <<stream, fileVars>>

\* The broadcast: a full queue loses its oldest line and remembers that it did.
Offer(s, line) ==
  IF s.state = "none" THEN s
  ELSE IF Len(s.queue) = ChannelLines
       THEN [s EXCEPT !.queue = Append(Tail(@), line), !.lagged = TRUE]
       ELSE [s EXCEPT !.queue = Append(@, line)]

\* sender.send, after the lock is dropped.
Send(t) ==
  /\ logger[t].at = "send"
  /\ stream' = [x \in Streams |-> Offer(stream[x], logger[t].seq)]
  /\ logger' = [logger EXCEPT ![t] = [at |-> "idle", seq |-> 0]]
  /\ UNCHANGED <<nextSeq, tailLines, fileVars>>

\* LogHub::subscribe takes the receiver first and the backlog second.
Subscribe(x, asked) ==
  /\ stream[x].state = "none"
  /\ stream' = [stream EXCEPT ![x].state = "subscribed", ![x].asked = asked]
  /\ UNCHANGED <<logger, nextSeq, tailLines, fileVars>>

\* A mutant: the first live line is taken to be the last one of the backlog.
NextLiveIsLast(lines) == IF lines = <<>> THEN 0 ELSE Last(lines)

\* logs_stream: what the live stream starts from.
NextLive(lines) == IF lines = <<>> THEN 0 ELSE Last(lines) + 1

\* The newest lines of the tail, as many as were asked for.
Backlog(asked) ==
  IF Len(tailLines) <= asked THEN tailLines
  ELSE SubSeq(tailLines, Len(tailLines) - asked + 1, Len(tailLines))

Snapshot(x) ==
  /\ stream[x].state = "subscribed"
  /\ LET lines == Backlog(stream[x].asked)
     IN  stream' = [stream EXCEPT ![x].state = "following",
                                  ![x].shown = lines,
                                  ![x].first = IF lines = <<>> THEN nextSeq ELSE Head(lines),
                                  ![x].next = NextLive(lines)]
  /\ UNCHANGED <<logger, nextSeq, tailLines, fileVars>>

\* The live half of logs_stream: a lag is an explicit gap; a line the backlog
\* already showed is skipped.
Show(x) ==
  LET s == stream[x] IN
  /\ s.state = "following"
  /\ s.lagged \/ s.queue # <<>>
  /\ stream' = [stream EXCEPT ![x] =
       IF s.lagged THEN [s EXCEPT !.lagged = FALSE, !.gaps = 1]
       ELSE [s EXCEPT !.queue = Tail(@),
                      !.shown = IF Head(s.queue) >= s.next THEN Append(@, Head(s.queue)) ELSE @]]
  /\ UNCHANGED <<logger, nextSeq, tailLines, fileVars>>

----------------------------------------------------------------------------
TrailInit ==
  /\ logger = [t \in Loggers |-> [at |-> "idle", seq |-> 0]]
  /\ nextSeq = 0
  /\ tailLines = <<>>
  /\ stream = [x \in Streams |-> NoStream]
  /\ sink = NoSink
  /\ sinkLock = "free"
  /\ opening = [w \in Loggers \cup {"reload"} |-> NoSink]
  /\ reload = "idle"
  /\ pathFile = 0
  /\ fileCount = 0

TrailNext ==
  \/ \E t \in Loggers : \/ Log(t) \/ WriteLine(t) \/ Reopen(t) \/ ReopenFails(t)
                        \/ Identify(t) \/ Push(t) \/ Send(t)
  \/ Attach \/ IdentifyAttached \/ Attached \/ Detach \/ Rotate \/ Recreate
  \/ \E x \in Streams : \/ \E asked \in AskedLines : Subscribe(x, asked)
                        \/ Snapshot(x) \/ Show(x)

TrailSpec == TrailInit /\ [][TrailNext]_trailVars

----------------------------------------------------------------------------
\* Every variable has its type, and a stream holds no more than the channel.
TrailTypeOK ==
  /\ logger \in [Loggers -> [at : {"idle", "file", "reopen", "identify", "hub", "send"},
                             seq : 0..MaxLines]]
  /\ nextSeq \in 0..MaxLines
  /\ Len(tailLines) <= BacklogLines
  /\ \A x \in Streams : Len(stream[x].queue) <= ChannelLines
  /\ sink \in [file : 0..MaxFiles, identity : 0..MaxFiles]
  /\ sinkLock \in Loggers \cup {"free"}
  /\ reload \in {"idle", "identify", "replace"}
  /\ pathFile \in 0..fileCount

\* hub.rs: "a line landing in between appears in one of the two and `seq`
\* dedupes the overlap", and sse.rs: "an explicit gap, never silent loss".
\* From the first line it shows, a stream has shown, or will be sent, every
\* line the hub has numbered, unless it has been told of a gap; and it shows
\* none twice, whatever the order the threads send in.
StreamsMissNothing ==
  \A x \in Streams : stream[x].state = "following" =>
    LET s == stream[x] IN
    /\ \A q \in s.first..(nextSeq - 1) :
         \/ \E i \in DOMAIN s.shown : s.shown[i] = q
         \/ \E i \in DOMAIN s.queue : s.queue[i] = q
         \/ \E t \in Loggers : logger[t].at = "send" /\ logger[t].seq = q
         \/ s.lagged \/ s.gaps > 0
    /\ \A i, j \in DOMAIN s.shown : s.shown[i] = s.shown[j] => i = j

\* ensure_log_file: "a reload that drops `logging.path` must stop the file
\* trail".  A detached sink comes back only by a reload that attaches one, not
\* by a thread that was reopening the old one.
DetachHolds ==
  [][sink = NoSink /\ sink' # NoSink => reload = "replace"]_trailVars

(* What the trail promises: a stream shows every line or a gap, and a sink *)
(* once detached is not written again.                                     *)
TrailContract == [](TrailTypeOK /\ StreamsMissNothing) /\ DetachHolds
============================================================================
