------------------------------ MODULE Streams ------------------------------
(***************************************************************************)
(* The live logs and the live statistics of a container: the hooks         *)
(* useContainerLogStream and useContainerStats in the browser, handleLogs  *)
(* and handleStats in apps/server/src/ws.ts, and LogDemuxer of docker.ts   *)
(* between them.  Docker's bytes come in chunks cut anywhere; the page     *)
(* changes to another container, or goes away, at any moment.              *)
(***************************************************************************)
EXTENDS Sockets

CONSTANTS
  Targets,    \* what a view can show: a host, a container, a length of backlog
  NoView,     \* no socket
  HeaderLen,  \* length of a frame header: 8 in the code
  MaxText,    \* what the page keeps: MAX_LINES, HISTORY_LENGTH
  MaxLosses,  \* bound: connections refused or lost, streams refused
  MaxBytes,   \* bound: bytes that any two streams of Docker bring
  Wire        \* per kind of stream, the bytes Docker sends

VARIABLES
  kind,     \* the view: multiplexed logs, logs of a TTY, statistics
  target,   \* what the page shows
  viewRef,  \* the socket of the effect that is in force
  of,       \* per socket, the target it was opened for
  text,     \* what is on the page
  linked,   \* `connected` of the statistics
  attach,   \* per socket, where the handler's asynchronous part is
  feed,     \* per socket, Docker's stream: none, open, ended, destroyed
  sent,     \* per socket, how many bytes Docker has sent
  held,     \* per socket, the bytes kept for the next chunk
  losses,   \* connections refused or lost, streams refused
  cut       \* history: a chunk of a TTY began or ended within a character

viewVars == <<target, viewRef, of, text, linked>>
feedVars == <<attach, feed, sent, held, cut, losses>>
streamVars == <<sockVars, kind, viewVars, feedVars>>

ViewKinds == {"logs", "tty", "stats"}

\* A byte: the unit it belongs to (a frame, a character, a line), its place in
\* it, and the length of the unit's body.
Byte == [unit : Nat, at : Nat, size : Nat]

ASSUME StreamsAssumption ==
  /\ NoView \notin Socks /\ Targets # {}
  /\ HeaderLen \in Nat \ {0} /\ MaxText \in Nat /\ MaxLosses \in Nat /\ MaxBytes \in Nat
  /\ DOMAIN Wire = ViewKinds /\ \A k \in ViewKinds : Wire[k] \in Seq(Byte)

\* The bytes of the unit that b is of: a frame with its header, a line with its
\* newline, a character.
Extent(k, b) ==
  CASE k = "logs" -> HeaderLen + b.size [] k = "stats" -> b.size + 1 [] k = "tty" -> b.size

\* Every byte is in its place in a unit: how Docker frames a stream, and what
\* UTF-8 and JSON lines are.  A stream may still end anywhere (FeedEnds).
ASSUME WireAssumption ==
  \A k \in ViewKinds : \A i \in DOMAIN Wire[k] :
    LET b == Wire[k][i] IN
    /\ b.at \in 1 .. Extent(k, b) /\ b.at <= i /\ i - b.at + Extent(k, b) <= Len(Wire[k])
    /\ \A j \in 1 .. Extent(k, b) : Wire[k][i - b.at + j] = [b EXCEPT !.at = j]

StreamsTypeOK ==
  /\ SocketsTypeOK
  /\ kind \in ViewKinds /\ target \in Targets
  /\ viewRef \in Socks \cup {NoView}
  /\ of \in [Socks -> Targets]
  /\ linked \in BOOLEAN /\ cut \in BOOLEAN
  /\ losses \in 0 .. MaxLosses
  /\ attach \in [Socks -> {"none", "inspect", "logs", "attached", "left"}]
  /\ feed \in [Socks -> {"none", "open", "ended", "destroyed"}]
  /\ \A c \in Socks : sent[c] \in 0 .. Len(Wire[kind]) /\ held[c] \in Seq(Byte)

StreamsInit ==
  /\ SocketsInit
  /\ kind \in ViewKinds
  /\ target = CHOOSE t \in Targets : TRUE
  /\ viewRef = NoView
  /\ of = [c \in Socks |-> target]
  /\ text = <<>> /\ linked = FALSE
  /\ attach = [c \in Socks |-> "none"]
  /\ feed = [c \in Socks |-> "none"]
  /\ sent = [c \in Socks |-> 0]
  /\ held = [c \in Socks |-> <<>>]
  /\ cut = FALSE /\ losses = 0

-----------------------------------------------------------------------------
\* LogDemuxer.push: where the frames end that the buffer holds whole.  The size
\* of a frame is read where its header should be.
SizeAt(buffer, offset) ==
  LET b == buffer[offset + HeaderLen] IN IF b.at = HeaderLen THEN b.size ELSE 0

FramesEndLate(buffer) ==    \* mutant: `<` for `<=` where a frame is complete
  LET end[offset \in 0 .. Len(buffer)] ==
        IF offset + HeaderLen <= Len(buffer)
        THEN LET next == offset + HeaderLen + SizeAt(buffer, offset) IN
             IF next < Len(buffer) THEN end[next] ELSE offset
        ELSE offset
  IN end[0]

FramesEnd(buffer) ==
  LET end[offset \in 0 .. Len(buffer)] ==
        IF offset + HeaderLen <= Len(buffer)
        THEN LET next == offset + HeaderLen + SizeAt(buffer, offset) IN
             IF next <= Len(buffer) THEN end[next] ELSE offset
        ELSE offset
  IN end[0]

\* The frames without their headers.
IsBody(b) == b.at > HeaderLen
Bodies(bytes) ==
  LET upTo[i \in 0 .. Len(bytes)] ==
        IF i = 0 THEN <<>>
        ELSE IF IsBody(bytes[i]) THEN Append(upTo[i - 1], bytes[i]) ELSE upTo[i - 1]
  IN upTo[Len(bytes)]

\* demuxLogs: the same of a complete buffer; a last frame cut short counts as
\* far as it goes.
DemuxLogs(buffer) ==
  LET end[offset \in 0 .. Len(buffer)] ==
        IF offset + HeaderLen <= Len(buffer)
        THEN LET next == offset + HeaderLen + SizeAt(buffer, offset) IN
             IF next <= Len(buffer) THEN end[next] ELSE Len(buffer)
        ELSE offset
  IN Bodies(SubSeq(buffer, 1, end[0]))

\* handleStats: buffer.split('\n'); lines.pop() stays.  A line's last byte is
\* its newline.
LinesEnd(buffer) ==
  LET ends == {i \in 1 .. Len(buffer) : buffer[i].at > buffer[i].size} IN
  IF ends = {} THEN 0 ELSE CHOOSE i \in ends : \A j \in ends : j <= i

\* What the data listener keeps, and what it sends.
Kept(buffer) ==
  LET end == CASE kind = "logs"  -> FramesEnd(buffer)
               [] kind = "stats" -> LinesEnd(buffer)
               [] kind = "tty"   -> Len(buffer)
  IN SubSeq(buffer, end + 1, Len(buffer))
Passed(buffer) ==
  LET whole == SubSeq(buffer, 1, Len(buffer) - Len(Kept(buffer))) IN
  IF kind = "logs" THEN Bodies(whole) ELSE whole

\* chunk.toString('utf8') of a TTY: a character that is not whole in the chunk
\* comes out as replacement characters.
Decoded(chunk) ==
  [i \in DOMAIN chunk |->
     IF kind = "tty" /\ (i < chunk[i].at \/ i + chunk[i].size - chunk[i].at > Len(chunk))
     THEN [chunk[i] EXCEPT !.unit = 0] ELSE chunk[i]]

-----------------------------------------------------------------------------
\* The hooks.

\* The effect runs for the first time, or again because the host, the container
\* or the backlog changed: the cleanup of the last one closes its socket.
ShowTarget(c, t) ==
  /\ viewRef = NoView \/ t # target
  /\ Unused(c)
  /\ target' = t /\ viewRef' = c
  /\ of' = [of EXCEPT ![c] = t]
  /\ text' = <<>> /\ linked' = FALSE
  /\ IF viewRef = NoView
     THEN /\ browser' = [browser EXCEPT ![c] = "connecting"]
          /\ UNCHANGED <<upstream, downstream>>
     ELSE /\ browser' = [AfterClose(viewRef) EXCEPT ![c] = "connecting"]
          /\ upstream' = UpAfterClose(viewRef) /\ downstream' = DownAfterClose(viewRef)
  /\ UNCHANGED <<server, kind, feedVars>>

\* The page is left, or the container stopped: only the cleanup runs.
Cleanup ==
  /\ viewRef # NoView
  /\ browser' = AfterClose(viewRef)
  /\ upstream' = UpAfterClose(viewRef) /\ downstream' = DownAfterClose(viewRef)
  /\ viewRef' = NoView
  /\ text' = (IF kind = "stats" THEN <<>> ELSE text)
  /\ linked' = FALSE
  /\ UNCHANGED <<server, kind, target, of, feedVars>>

ViewOpens(c) ==
  /\ BrowserOpens(c)
  /\ linked' = (kind = "stats")
  /\ UNCHANGED <<upstream, kind, target, viewRef, of, text, feedVars>>

LastLines(s) == SubSeq(s, IF Len(s) > MaxText THEN Len(s) - MaxText + 1 ELSE 1, Len(s))

ViewReceives(c) ==
  /\ BrowserReceives(c)
  /\ text' = LastLines(text \o [i \in DOMAIN Head(downstream[c]).bytes |->
                             [sock |-> c, byte |-> Head(downstream[c]).bytes[i]]])
  /\ linked' = (kind = "stats")
  /\ UNCHANGED <<browser, server, upstream, kind, target, viewRef, of, feedVars>>

\* onclose, also of a socket that is no longer the view's
ViewCloses(c) ==
  /\ BrowserCloses(c)
  /\ linked' = FALSE
  /\ UNCHANGED <<kind, target, viewRef, of, text, feedVars>>

-----------------------------------------------------------------------------
Loss == losses < MaxLosses /\ losses' = losses + 1

\* handleLogs and handleStats.

ViewAdmitted(c) ==
  /\ Upgraded(c)
  /\ attach' = [attach EXCEPT ![c] = IF kind = "stats" THEN "logs" ELSE "inspect"]
  /\ UNCHANGED <<kind, viewVars, feed, sent, held, cut, losses>>

\* The upgrade handler refuses, or goes on to await the client.
ViewRejected(c) ==
  /\ Upgrade(c) \/ UpgradeRefused(c)
  /\ IF server'[c] = "closed" /\ browser[c] # "failing" THEN Loss ELSE UNCHANGED losses
  /\ UNCHANGED <<kind, viewVars, attach, feed, sent, held, cut>>

\* container.inspect() resolves
Inspected(c) ==
  /\ attach[c] = "inspect"
  /\ attach' = [attach EXCEPT ![c] = IF server[c] = "closed" THEN "left" ELSE "logs"]
  /\ UNCHANGED <<sockVars, kind, viewVars, feed, sent, held, cut, losses>>

\* container.logs() or container.stats() yields a stream: the socket may have
\* been closed meanwhile.
Attached(c) ==
  /\ attach[c] = "logs"
  /\ IF server[c] = "closed"
     THEN attach' = [attach EXCEPT ![c] = "left"] /\ feed' = [feed EXCEPT ![c] = "destroyed"]
     ELSE attach' = [attach EXCEPT ![c] = "attached"] /\ feed' = [feed EXCEPT ![c] = "open"]
  /\ UNCHANGED <<sockVars, kind, viewVars, sent, held, cut, losses>>

AttachFailed(c) ==
  /\ attach[c] \in {"inspect", "logs"} /\ Loss
  /\ attach' = [attach EXCEPT ![c] = "left"]
  /\ ServerCloses(c)
  /\ UNCHANGED <<browser, upstream, kind, viewVars, feed, sent, held, cut>>

\* The data listener, with the next n bytes.
Chunk(c, n) ==
  LET chunk  == Decoded(SubSeq(Wire[kind], sent[c] + 1, sent[c] + n))
      buffer == held[c] \o chunk
  IN
  /\ feed[c] = "open"
  /\ n \in 1 .. Len(Wire[kind]) - sent[c]
  /\ \A d \in Socks \ {c} : sent[c] + sent[d] + n <= MaxBytes
  /\ sent' = [sent EXCEPT ![c] = @ + n]
  /\ held' = [held EXCEPT ![c] = Kept(buffer)]
  /\ downstream' = IF Passed(buffer) = <<>> \/ server[c] # "open" THEN downstream
             ELSE ToBrowser(c, [type |-> "data", bytes |-> Passed(buffer)])
  /\ cut' = (cut \/ (kind = "tty" /\ chunk[n].unit = 0))
  /\ UNCHANGED <<browser, server, upstream, kind, viewVars, attach, feed, losses>>

\* The end and error listeners of the stream.
FeedEnds(c) ==
  /\ feed[c] = "open"
  /\ feed' = [feed EXCEPT ![c] = "ended"]
  /\ ServerCloses(c)
  /\ UNCHANGED <<browser, upstream, kind, viewVars, attach, sent, held, cut, losses>>

\* The close listener: closed = true, stream?.destroy()
ViewClosed(c) ==
  /\ ServerClosed(c)
  /\ feed' = [feed EXCEPT ![c] = IF @ = "open" THEN "destroyed" ELSE @]
  /\ UNCHANGED <<kind, viewVars, attach, sent, held, cut, losses>>

ViewLost(c) ==
  /\ Drop(c) /\ Loss
  /\ UNCHANGED <<kind, viewVars, attach, feed, sent, held, cut>>

-----------------------------------------------------------------------------
StreamsNext ==
  \/ Cleanup
  \/ \E c \in Socks :
       \/ \E t \in Targets : ShowTarget(c, t)
       \/ ViewOpens(c) \/ ViewReceives(c) \/ ViewCloses(c)
       \/ ViewAdmitted(c) \/ ViewRejected(c) \/ Inspected(c) \/ Attached(c) \/ AttachFailed(c)
       \/ \E n \in 1 .. Len(Wire[kind]) : Chunk(c, n)
       \/ FeedEnds(c) \/ ViewClosed(c) \/ ViewLost(c)

StreamsSpec == StreamsInit /\ [][StreamsNext]_streamVars

-----------------------------------------------------------------------------
\* The page shows nothing but what Docker sent for the container it shows, and
\* no two views are mixed, however fast the user goes from one to the next.
TextOfTarget ==
  \A i \in DOMAIN text : /\ of[text[i].sock] = target
                         /\ viewRef # NoView => text[i].sock = viewRef

\* What the page shows, with what is on the way to it, is the end of what Docker
\* has sent over this connection: nothing is lost, repeated or out of place.
\* The characters of a TTY that a chunk cuts are the exception.
OnTheWay(c) ==
  LET upTo[i \in 0 .. Len(downstream[c])] ==
        IF i = 0 THEN <<>>
        ELSE IF downstream[c][i].type = "data" THEN upTo[i - 1] \o downstream[c][i].bytes
        ELSE upTo[i - 1]
  IN upTo[Len(downstream[c])]
TextIsFeed ==
  /\ viewRef # NoView /\ ~cut
  /\ Connected(viewRef) /\ server[viewRef] = "open" /\ Lossless(downstream, viewRef)
  => LastLines([i \in DOMAIN text |-> text[i].byte] \o OnTheWay(viewRef))
       = LastLines(Passed(SubSeq(Wire[kind], 1, sent[viewRef])))

\* However Docker's bytes are cut into chunks, LogDemuxer has passed on what
\* demuxLogs makes of all of them at once, as far as frames are complete, and
\* keeps the incomplete one from its header on; handleStats likewise for lines.
DemuxIsDemuxLogs ==
  \A c \in Socks :
    LET all   == SubSeq(Wire[kind], 1, sent[c])
        given == SubSeq(all, 1, sent[c] - Len(held[c]))
    IN /\ held[c] = SubSeq(all, sent[c] - Len(held[c]) + 1, sent[c])
       /\ held[c] # <<>> => held[c][1].at = 1
       /\ kind = "logs" => Bodies(given) = SubSeq(DemuxLogs(all), 1, Len(Bodies(given)))
       /\ sent[c] = Len(Wire[kind]) => held[c] = <<>>

\* No stream from Docker outlives the socket it was opened for, at whatever
\* moment of inspect() and logs() the socket is closed.
NoFeedWithoutSocket == \A c \in Socks : server[c] = "closed" => feed[c] # "open"

\* The statistics never say connected of a socket that is not.
ConnectedIsTrue == linked => viewRef # NoView /\ browser[viewRef] = "open"

\* A view shows what Docker sends for its container and nothing else, and keeps
\* no stream it does not show (useContainerLogStream.ts, useContainerStats.ts, ws.ts).
ViewIsOfTarget == TextOfTarget /\ NoFeedWithoutSocket /\ ConnectedIsTrue

\* It shows the whole of it, however it was cut on the way (ws.ts, docker.ts LogDemuxer).
FeedIsWhole == TextIsFeed /\ DemuxIsDemuxLogs

=============================================================================
