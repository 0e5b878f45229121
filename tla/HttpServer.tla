----------------------------- MODULE HttpServer -----------------------------
(***************************************************************************)
(* The HTTP server of mmal-version/src/http.c, the MJPEG stream of         *)
(* mjpeg.c and the shutdown of both in main.c.                             *)
(*                                                                         *)
(* The HTTP thread polls its sockets, accepts, reads a request, answers    *)
(* it and, when a client is gone, closes.  Who asked for /stream.mjpeg is  *)
(* entered into a list, under a mutex.  The MJPEG thread walks the list    *)
(* for each frame and sends, with the mutex held, what may block.          *)
(*                                                                         *)
(* Descriptors are numbers that are reused.  A client is one connection.   *)
(* A page says "Connection: close" and is its last answer; the header of   *)
(* the stream says "Keep-Alive", and a client that watches may ask again.  *)
(* Sockets block, and a send() is whole or fails.                          *)
(***************************************************************************)
EXTENDS Integers, Sequences

CONSTANTS
    MaxClients,     \* bound: connections that are made
    Slots,          \* MAX_POLL_FDS
    Room,           \* sends a client's buffer takes until it must read
    MaxMore,        \* bound: requests of clients that watch
    MaxFailures,    \* bound: accept()s and fopen()s that fail
    HeartbeatFails, \* heartbeat() may return at once (main.c 471-480)
    SignalComes     \* bound: whether there may be a SIGINT

ASSUME HttpServerConstants ==
    /\ MaxClients \in Nat /\ Slots \in Nat \ {0} /\ Room \in Nat \ {0}
    /\ {MaxMore, MaxFailures} \subseteq Nat /\ {HeartbeatFails, SignalComes} \subseteq BOOLEAN

Clients == 1 .. MaxClients

\* The listener is 0; with the slots full there is one more for an accept().
Fds == 0 .. Slots
NoClient == 0

VARIABLES
    \* the clients, and the kernel's view of them
    link,           \* "none", "waiting" for accept(), "open", or "closed" by the server
    request,        \* "unsent", "page" or "stream" not yet read, "paged" or "streaming"
    more, again,    \* requests of clients that watched; history: who sent one
    gone,           \* who has closed
    unread,         \* sends a client has not read
    got,            \* what was sent to it last, unless it is gone
    owner,          \* whose socket a descriptor is
    failures,       \* accept()s and fopen()s that failed
    \* http.c
    pc, slot,       \* the HTTP thread, and its i
    fds, count,     \* http_fds with whether revents is set, http_fds_count
    viewers,        \* stream_connections; with each, a history of who asked
    doubled,        \* history: descriptors entered twice
    freed,          \* clear_connections() has freed them
    lock,           \* who holds stream_connections_mutex
    \* mjpeg.c
    sending, rest,  \* the piece of the frame at hand; the viewers it goes to
    \* main.c
    running, main

asking  == <<request, more, again>>
clients == <<link, asking, gone, unread, got>>
streams == <<viewers, doubled>>
polling == <<slot, fds, count>>
mjpeg   == <<sending, rest>>
vars    == <<clients, owner, failures, pc, polling, streams, freed, lock, mjpeg, running, main>>

-----------------------------------------------------------------------------
\* The next slot of the pass that has revents, if there is one.
AtSlot(k) == /\ pc = "scan" /\ k \in slot .. count - 1 /\ fds[k].ready
             /\ \A j \in slot .. k - 1 : ~fds[j].ready
ClientOf(k) == owner[fds[k].fd]

\* Something to recv(): a request, or the client's end (POLLIN, POLLHUP).
ReadableUnlessGone(c) == request[c] \in {"page", "stream"}
Readable(c) == request[c] \in {"page", "stream"} \/ c \in gone

Waiting == {c \in Clients : link[c] = "waiting"}
Ready(k) == IF k = 0 THEN Waiting # {} ELSE Readable(ClientOf(k))

LowestFree == CHOOSE f \in Fds \ {0} :
                  owner[f] = NoClient /\ \A g \in 1 .. f - 1 : owner[g] # NoClient

RoomAtAnyCount(n) == n <= Slots
RoomFor(n) == n < Slots

\* The slot that was removed gets the last one; the last keeps its bytes.
RemovedWithoutMove(k) == fds
Removed(k) == [fds EXCEPT ![k] = fds[count - 1]]

\* LL_DELETE of the first entry for a descriptor, if there is one.
ForgetHead(list, fd) == IF list = <<>> THEN list ELSE Tail(list)
Listed(list, fd) == \E j \in DOMAIN list : list[j].fd = fd
Forget(list, fd) ==
    IF Listed(list, fd)
    THEN LET first == CHOOSE j \in DOMAIN list :
                          list[j].fd = fd /\ \A h \in 1 .. j - 1 : list[h].fd # fd
         IN  SubSeq(list, 1, first - 1) \o SubSeq(list, first + 1, Len(list))
    ELSE list

Init ==
    /\ link = [c \in Clients |-> "none"] /\ request = [c \in Clients |-> "unsent"]
    /\ more = 0 /\ again = {} /\ doubled = {}
    /\ gone = {} /\ unread = [c \in Clients |-> 0] /\ got = [c \in Clients |-> "nothing"]
    /\ owner = [f \in Fds |-> NoClient] /\ failures = 0
    /\ pc = "poll" /\ slot = 0 /\ count = 1
    /\ fds = [k \in 0 .. Slots - 1 |-> [fd |-> 0, ready |-> FALSE]]
    /\ viewers = <<>> /\ freed = FALSE /\ lock = "free"
    /\ sending = "idle" /\ rest = <<>>
    /\ running = TRUE /\ main = "heartbeat"

-----------------------------------------------------------------------------
(* The clients *)

Connect(c) ==
    /\ link[c] = "none" /\ \A d \in 1 .. c - 1 : link[d] # "none"
    /\ link' = [link EXCEPT ![c] = "waiting"]
    /\ UNCHANGED <<asking, gone, unread, got>>

Ask(c, what) ==
    /\ link[c] \in {"waiting", "open"} /\ c \notin gone
    /\ \/ request[c] = "unsent" /\ UNCHANGED <<more, again>>
       \/ request[c] = "streaming" /\ more < MaxMore /\ more' = more + 1 /\ again' = again \cup {c}
    /\ request' = [request EXCEPT ![c] = what]
    /\ UNCHANGED <<link, gone, unread, got>>

Read(c) ==
    /\ c \notin gone /\ unread[c] > 0
    /\ unread' = [unread EXCEPT ![c] = @ - 1]
    /\ UNCHANGED <<link, asking, gone, got>>

\* A browser leaves a page when it has it, and a stream at any time.
Leave(c) ==
    /\ link[c] \in {"waiting", "open"} /\ c \notin gone
    /\ gone' = gone \cup {c}
    /\ unread' = [unread EXCEPT ![c] = 0] /\ got' = [got EXCEPT ![c] = "nothing"]
    /\ UNCHANGED <<link, asking>>

Browser ==
    /\ \E c \in Clients :
           Connect(c) \/ Read(c) \/ Leave(c) \/ \E what \in {"page", "stream"} : Ask(c, what)
    /\ UNCHANGED <<owner, failures, pc, polling, streams, freed, lock, mjpeg, running, main>>

-----------------------------------------------------------------------------
(* The HTTP thread *)

\* poll(): revents are set in the slots in use, and stay as they are in others.
Poll ==
    /\ pc = "poll" /\ \E k \in 0 .. count - 1 : Ready(k)
    /\ fds' = [k \in DOMAIN fds |->
                  IF k < count THEN [fds[k] EXCEPT !.ready = Ready(k)] ELSE fds[k]]
    /\ slot' = 0 /\ pc' = "scan"
    /\ UNCHANGED <<clients, owner, failures, count, streams, freed, lock, mjpeg, running, main>>

\* A new connection takes the next slot, if there is one, with its old revents.
Accept ==
    /\ AtSlot(0)
    /\ \E c \in Waiting :
        /\ \A d \in Waiting : c <= d
        /\ IF RoomFor(count)
           THEN /\ fds' = [fds EXCEPT ![count].fd = LowestFree]
                /\ owner' = [owner EXCEPT ![LowestFree] = c]
                /\ count' = count + 1
                /\ link' = [link EXCEPT ![c] = "open"]
           ELSE /\ link' = [link EXCEPT ![c] = "closed"]
                /\ UNCHANGED <<fds, owner, count>>
    /\ slot' = 1
    /\ UNCHANGED <<asking, gone, unread, got, failures, pc, streams, freed, lock, mjpeg,
                   running, main>>

\* The end of a pass of the loop.
NextPass == pc' = IF running THEN "poll" ELSE "ended"

\* A failed accept() breaks off the pass.
AcceptFails ==
    /\ AtSlot(0) /\ failures < MaxFailures
    /\ failures' = failures + 1
    /\ NextPass
    /\ UNCHANGED <<clients, owner, polling, streams, freed, lock, mjpeg, running, main>>

EndPass ==
    /\ pc = "scan" /\ \A k \in slot .. count - 1 : ~fds[k].ready
    /\ NextPass
    /\ UNCHANGED <<clients, owner, failures, polling, streams, freed, lock, mjpeg, running, main>>

\* recv() blocks until there is a request or the client's end; the request is
\* taken first and answered.  A send blocks while there is no room for it; to a
\* client that is gone it may fail.
HasRoom(c) == c \notin gone => unread[c] < Room
Send(c, piece) ==
    /\ got' = [got EXCEPT ![c] = IF c \in gone THEN @ ELSE piece]
    /\ unread' = [unread EXCEPT ![c] = IF c \in gone THEN @ ELSE @ + 1]

AnswerPage(k) ==
    /\ AtSlot(k) /\ k > 0 /\ request[ClientOf(k)] = "page"
    /\ request' = [request EXCEPT ![ClientOf(k)] = "paged"]
    /\ HasRoom(ClientOf(k)) /\ Send(ClientOf(k), "page")
    /\ \/ slot' = k + 1 /\ pc' = "scan"
       \/ ClientOf(k) \in gone /\ slot' = k /\ pc' = "drop"
    /\ UNCHANGED <<link, more, again, gone, owner, failures, fds, count, streams, freed, lock,
                   mjpeg, running, main>>

\* The file is read whether fopen() found it or not.
PageCannotBeOpened(k) ==
    /\ AtSlot(k) /\ k > 0 /\ request[ClientOf(k)] = "page" /\ failures < MaxFailures
    /\ failures' = failures + 1 /\ main' = "killed"
    /\ UNCHANGED <<clients, owner, pc, polling, streams, freed, lock, mjpeg, running>>

\* The header of the stream, then (Enlist) the entry into the list.
AnswerStream(k) ==
    /\ AtSlot(k) /\ k > 0 /\ request[ClientOf(k)] = "stream"
    /\ request' = [request EXCEPT ![ClientOf(k)] = "streaming"]
    /\ HasRoom(ClientOf(k)) /\ Send(ClientOf(k), "header")
    /\ slot' = k
    /\ pc' \in {"enlist"} \cup (IF ClientOf(k) \in gone THEN {"enlist failed"} ELSE {})
    /\ UNCHANGED <<link, more, again, gone, owner, failures, fds, count, streams, freed, lock,
                   mjpeg, running, main>>

RecvEnd(k) ==
    /\ AtSlot(k) /\ k > 0
    /\ request[ClientOf(k)] \notin {"page", "stream"} /\ ClientOf(k) \in gone
    /\ slot' = k /\ pc' = "drop"
    /\ UNCHANGED <<clients, owner, failures, fds, count, streams, freed, lock, mjpeg, running, main>>

\* LL_APPEND under the mutex; handle_request returns what the send did.
Enlist ==
    /\ pc \in {"enlist", "enlist failed"} /\ lock = "free"
    /\ viewers' = Append(viewers, [fd |-> fds[slot].fd, client |-> ClientOf(slot)])
    /\ doubled' = IF Listed(viewers, fds[slot].fd) THEN doubled \cup {fds[slot].fd} ELSE doubled
    /\ IF pc = "enlist" THEN slot' = slot + 1 /\ pc' = "scan" ELSE slot' = slot /\ pc' = "drop"
    /\ UNCHANGED <<clients, owner, failures, fds, count, freed, lock, mjpeg, running, main>>

\* The connection leaves the list, under the mutex, before its socket closes.
Drop ==
    /\ pc = "drop" /\ lock = "free"
    /\ viewers' = Forget(viewers, fds[slot].fd)
    /\ pc' = "close"
    /\ UNCHANGED <<clients, owner, failures, polling, doubled, freed, lock, mjpeg, running, main>>

Close ==
    /\ pc = "close"
    /\ link' = [link EXCEPT ![ClientOf(slot)] = "closed"]
    /\ owner' = [owner EXCEPT ![fds[slot].fd] = NoClient]
    /\ fds' = Removed(slot) /\ count' = count - 1
    /\ pc' = "scan"
    /\ UNCHANGED <<asking, gone, unread, got, failures, slot, streams, freed, lock, mjpeg,
                   running, main>>

\* pthread_cancel takes effect in poll, accept, recv, send, close and stdio, but
\* not while the thread waits for the mutex.
Cancelled ==
    /\ main = "joining" /\ pc \in {"poll", "scan", "close"}
    /\ pc' = "cleanup"
    /\ UNCHANGED <<clients, owner, failures, polling, streams, freed, lock, mjpeg, running, main>>

\* http_server_thread_cleanup: all sockets close,
CloseAll ==
    /\ pc = "cleanup"
    /\ LET closed == {fds[k].fd : k \in 0 .. count - 1}
       IN  /\ link' = [c \in Clients |->
                          IF \E f \in closed : owner[f] = c THEN "closed" ELSE link[c]]
           /\ owner' = [f \in Fds |-> IF f \in closed THEN NoClient ELSE owner[f]]
    /\ pc' = "clear"
    /\ UNCHANGED <<asking, gone, unread, got, failures, polling, streams, freed, lock, mjpeg,
                   running, main>>

\* then the list is freed, and stream_connections still points to it.
ClearConnections ==
    /\ pc = "clear" /\ lock = "free"
    /\ freed' = (viewers # <<>>)
    /\ pc' = "ended"
    /\ UNCHANGED <<clients, owner, failures, polling, streams, lock, mjpeg, running, main>>

HttpAnswer == \E k \in 1 .. Slots - 1 : AnswerPage(k) \/ AnswerStream(k)
HttpLock == Enlist \/ Drop \/ ClearConnections
Http ==
    \/ Poll \/ Accept \/ AcceptFails \/ EndPass
    \/ HttpAnswer \/ \E k \in 1 .. Slots - 1 : PageCannotBeOpened(k) \/ RecvEnd(k)
    \/ Close
    \/ Cancelled \/ CloseAll \/ HttpLock

-----------------------------------------------------------------------------
(* The MJPEG thread: mjpeg_callback on a frame that is due *)

\* The viewers that are left after the first, and the mutex then.
FirstViewerOnly(list) == <<>>
After(list) == Tail(list)

LockKept(list) == "mjpeg"
UnlockInLoop(list) == "free"
LockAfter(list) == IF list = <<>> THEN "free" ELSE "mjpeg"

\* socket_send returns -1 for a failure, which is true: all pieces are tried.
PieceWithoutLength(piece) == IF piece = "boundary" THEN "jpeg" ELSE "boundary"
PieceAfter(piece) ==
    CASE piece = "boundary" -> "length" [] piece = "length" -> "jpeg" [] OTHER -> "boundary"

FrameDue ==
    /\ sending = "idle" /\ lock = "free" /\ viewers # <<>> /\ ~freed
    /\ lock' = "mjpeg" /\ rest' = viewers /\ sending' = "boundary"
    /\ UNCHANGED <<clients, owner, failures, pc, polling, streams, freed, running, main>>

\* The list was freed: what is read there can be anything.
FrameDueAfterFree ==
    /\ sending = "idle" /\ lock = "free" /\ freed
    /\ sending' = "astray"
    /\ UNCHANGED <<clients, owner, failures, pc, polling, streams, freed, lock, rest, running, main>>

\* It may look as before, with sockets that are closed, or end the process.
Astray ==
    /\ sending = "astray"
    /\ \/ sending' = "idle" /\ UNCHANGED main
       \/ sending' = "astray" /\ main' = "killed"
    /\ UNCHANGED <<clients, owner, failures, pc, polling, streams, freed, lock, rest, running>>

\* A piece to the first of the viewers left.  send() blocks while there is no
\* room; to a closed socket, or a client that is gone, it fails or is lost.
SendPiece ==
    /\ sending \in {"boundary", "length", "jpeg"}
    /\ LET c == owner[Head(rest).fd]
       IN  IF c # NoClient
           THEN HasRoom(c) /\ Send(c, sending)
           ELSE UNCHANGED <<got, unread>>
    /\ IF sending = "jpeg"
       THEN /\ rest' = After(rest) /\ lock' = LockAfter(rest')
            /\ sending' = IF rest' = <<>> THEN "idle" ELSE PieceAfter("jpeg")
       ELSE /\ UNCHANGED <<rest, lock>>
            /\ sending' = PieceAfter(sending)
    /\ UNCHANGED <<link, asking, gone, owner, failures, pc, polling, streams, freed, running, main>>

Mjpeg == FrameDue \/ FrameDueAfterFree \/ Astray \/ SendPiece

-----------------------------------------------------------------------------
(* The main thread *)

\* signal_handler.
Signal ==
    /\ SignalComes /\ running /\ running' = FALSE
    /\ UNCHANGED <<clients, owner, failures, pc, polling, streams, freed, lock, mjpeg, main>>

\* heartbeat() returns when running is false, or at once; pthread_cancel follows.
HeartbeatReturns ==
    /\ main = "heartbeat" /\ (~running \/ HeartbeatFails)
    /\ main' = "joining"
    /\ UNCHANGED <<clients, owner, failures, pc, polling, streams, freed, lock, mjpeg, running>>

Joined ==
    /\ main = "joining" /\ pc = "ended"
    /\ main' = "stopping"
    /\ UNCHANGED <<clients, owner, failures, pc, polling, streams, freed, lock, mjpeg, running>>

\* Capture stops and the ports are disabled, which waits for the callback.
PortDisabled ==
    /\ main = "stopping" /\ sending = "idle"
    /\ main' = "done"
    /\ UNCHANGED <<clients, owner, failures, pc, polling, streams, freed, lock, mjpeg, running>>

Main == HeartbeatReturns \/ Joined \/ PortDisabled

Next == main \notin {"done", "killed"} /\ (Browser \/ Http \/ Mjpeg \/ Signal \/ Main)

\* Threads are scheduled, and as there is time between two frames the HTTP thread
\* gets the mutex and its place in a client's buffer.  A client that stays sends
\* its request and reads.
Fairness ==
    /\ WF_vars(Http) /\ SF_vars(HttpLock \/ HttpAnswer) /\ WF_vars(Mjpeg)
    /\ WF_vars(~running /\ HeartbeatReturns) /\ WF_vars(Joined) /\ SF_vars(PortDisabled)
    /\ \A c \in Clients :
        /\ WF_vars(Browser /\ request[c] = "unsent" /\ \E what \in {"page", "stream"} : Ask(c, what))
        /\ WF_vars(Browser /\ Read(c))

Spec == Init /\ [][Next]_vars /\ Fairness

-----------------------------------------------------------------------------
(* Properties *)

TypeOK ==
    /\ link \in [Clients -> {"none", "waiting", "open", "closed"}]
    /\ request \in [Clients -> {"unsent", "page", "stream", "paged", "streaming"}]
    /\ more \in 0 .. MaxMore /\ again \subseteq Clients /\ doubled \subseteq Fds
    /\ gone \subseteq Clients /\ unread \in [Clients -> 0 .. Room]
    /\ got \in [Clients -> {"nothing", "page", "header", "boundary", "length", "jpeg"}]
    /\ owner \in [Fds -> Clients \cup {NoClient}] /\ failures \in 0 .. MaxFailures
    /\ pc \in {"poll", "scan", "enlist", "enlist failed", "drop", "close",
               "cleanup", "clear", "ended"}
    /\ slot \in 0 .. Slots /\ count \in 1 .. Slots
    /\ fds \in [0 .. Slots - 1 -> [fd: Fds, ready: BOOLEAN]]
    /\ viewers \in Seq([fd: Fds, client: Clients]) /\ freed \in BOOLEAN
    /\ rest \in Seq([fd: Fds, client: Clients])
    /\ sending \in {"idle", "boundary", "length", "jpeg", "astray"}
    /\ lock \in {"free", "mjpeg"} /\ running \in BOOLEAN
    /\ main \in {"heartbeat", "joining", "stopping", "done", "killed"}

Up == pc \notin {"clear", "ended"}

\* The slots in use are the listener and every open connection once, whatever
\* was accepted, refused and removed before; descriptors are reused and the last
\* slot moves into a removed one ("IS THIS FD ALREADY IN OUR LIST?", http.c
\* 180-191 and 245-252).
SlotsAreOpenSockets ==
    Up => /\ \A k, l \in 1 .. count - 1 : fds[k].fd = fds[l].fd => k = l
          /\ {fds[k].fd : k \in 1 .. count - 1} = {f \in Fds : owner[f] # NoClient}
          /\ \A c \in Clients : link[c] = "open" <=> \E f \in Fds : owner[f] = c

\* While the server runs whoever is in the list of streams still owns the
\* descriptor it asked with, once: no frame goes to a closed descriptor or to the
\* next connection that got its number (http.c 231-245 and 289-293).  This is so as
\* long as no client asks for the stream twice on one connection: the second entry
\* is never removed, and what is sent by it is anybody's.
StreamsReachWhoAsked ==
    Up => \A j \in DOMAIN viewers : viewers[j].fd \notin doubled =>
              /\ owner[viewers[j].fd] = viewers[j].client
              /\ \A h \in DOMAIN viewers : viewers[j].fd = viewers[h].fd => j = h

\* The frame in progress goes to viewers in the list, and nobody changes it
\* meanwhile (mjpeg.c 34-50).
FrameWalksList ==
    Up /\ sending \in {"boundary", "length", "jpeg"} =>
        /\ lock = "mjpeg" /\ Len(rest) \in 1 .. Len(viewers)
        /\ rest = SubSeq(viewers, Len(viewers) - Len(rest) + 1, Len(viewers))

\* A client that asks once sees one answer: a page, or the header and then whole
\* frames, each of boundary, length and picture (http.c 288-293 and mjpeg.c 41-47);
\* unless it has a descriptor that was entered twice.
Streams == {<<"nothing", "page">>, <<"nothing", "header">>, <<"header", "boundary">>,
            <<"boundary", "length">>, <<"length", "jpeg">>, <<"jpeg", "boundary">>}
OnDoubled(c) == \E f \in doubled : owner[f] = c
AnswersAreWhole ==
    [][\A c \in Clients \ again :
           got'[c] # got[c] /\ ~OnDoubled(c)
               => <<got[c], got'[c]>> \in Streams \/ c \in gone' \ gone]_vars

\* While the program runs a request that was sent is answered, unless its sender
\* leaves or there is no slot: neither the mutex nor a recv() too early stops it.
RequestIsAnswered ==
    \A c \in Clients :
        request[c] \in {"page", "stream"}
            ~> \/ got[c] # "nothing" \/ c \in gone \/ link[c] = "closed"
               \/ main # "heartbeat"

\* The socket and the slot of a client that left are given back.
GoneIsClosed ==
    \A c \in Clients : c \in gone ~> link[c] = "closed" \/ main # "heartbeat"

\* Whoever asked for the stream gets a frame, however many others watch.
ViewerIsServed ==
    \A c \in Clients : got[c] = "header" ~> got[c] = "jpeg" \/ c \in gone \/ main # "heartbeat"

\* After a signal the program comes to its end.
SignalEndsProgram == ~running ~> main \in {"done", "killed"}

\* "we want to gracefully exit the mjpeg thread, instead of bail" (main.c 808):
\* the MJPEG thread does not read a list that was freed.
MjpegExitsGracefully == sending # "astray"
=============================================================================
