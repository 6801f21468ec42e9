----------------------------- MODULE PipeSession -----------------------------
(***************************************************************************)
(* Injection, the pipe and its frames: one game, and the two hosts that    *)
(* talk to its DLL, the trainer and the developer's tool.                  *)
(*                                                                         *)
(*   src/crates/host-common/src/injector.rs, transport.rs                  *)
(*   src/crates/ue5-host, glacier-host           session.rs, client.rs     *)
(*   src/crates/batman-lod-dll, glacier-007-dll  lib.rs, worker.rs         *)
(*                                                                         *)
(* A session serialises its requests with a mutex, so a host has one       *)
(* request under way.  The pipe is a stream of bytes, cut into frames by   *)
(* a length prefix; it takes one client at a time and is created anew for  *)
(* the next.  Every blocking call is a step of its own.                    *)
(***************************************************************************)
EXTENDS Naturals, Sequences, PipeProtocol

CONSTANTS
    Hosts,       \* the processes that inject and connect
    MaxRequests  \* bound: the requests each host ever sends

ASSUME PipeAssumption == MaxRequests \in [Hosts -> Nat \ {0}] /\ "none" \notin Hosts

NoHost == "none"

VARIABLES
    engine,   \* of the game: which of the two DLLs this is
    image,    \* the DLL in the game: where it is, its references, is it of the hosts' version
    stop,     \* SHUTDOWN
    server,   \* the worker: its step, the handshake gate
    pipe,     \* the instance: is it there, its client, is the client's end open, the frames
    peer,     \* the hosts: their step, the number of their last request, its kind while they wait
    torn      \* the hosts that have left the body of a frame unread

pipeVars == <<engine, image, stop, server, pipe, peer, torn>>

Frame == [seq : Nat, kind : Kinds, fits : BOOLEAN]

\* The steps at which the worker runs, or is blocked in, code of the DLL.
Inside ==
    {"load", "create", "created", "listen", "serve", "handle", "write", "restore", "flush"}

PipeTypeOK ==
    /\ engine \in Engines
    /\ image \in [at : {"absent", "loaded", "detach", "crashed"}, refs : Nat, same : BOOLEAN]
    /\ stop \in BOOLEAN
    /\ server \in [at : {"none", "ended"} \cup Inside, gate : BOOLEAN]
    /\ pipe \in [up : BOOLEAN, host : Hosts \cup {NoHost}, open : BOOLEAN,
                 toDll : Seq(Frame), toHost : Seq(Frame)]
    /\ peer \in [Hosts -> [at : {"idle", "load", "open", "wait", "ready", "broken"},
                           seq : Nat, req : Kinds \cup {"none"}]]
    /\ \A h \in Hosts : peer[h].seq <= MaxRequests[h]
    /\ torn \subseteq Hosts

NoPipe == [up |-> FALSE, host |-> NoHost, open |-> FALSE, toDll |-> << >>, toHost |-> << >>]
NoServer == [at |-> "none", gate |-> FALSE]
NoImage == [at |-> "absent", refs |-> 0, same |-> TRUE]

PipeInit ==
    /\ engine \in Engines /\ image = NoImage
    /\ stop = FALSE /\ server = NoServer /\ pipe = NoPipe
    /\ peer = [h \in Hosts |-> [at |-> "idle", seq |-> 0, req |-> "none"]]
    /\ torn = {}

-----------------------------------------------------------------------------
(* A host: Injector::inject, PipeHandle::open, the handshake, its requests. *)

To(h, step) == peer' = [peer EXCEPT ![h].at = step, ![h].req = "none"]

HostOnly == UNCHANGED <<engine, stop, server>>

\* is_dll_loaded: a DLL that is there is taken as it is, whatever its version.
CheckLoaded(h) ==
    /\ peer[h].at = "idle" /\ peer[h].seq < MaxRequests[h] /\ image.at \in {"absent", "loaded"}
    /\ To(h, IF image.at = "loaded" THEN "open" ELSE "load")
    /\ UNCHANGED <<image, pipe, torn>> /\ HostOnly

\* LoadLibraryW on a remote thread.  The first one runs DllMain, which starts the
\* worker; a second one only counts.
LoadLibrary(h) ==
    /\ peer[h].at = "load" /\ image.at \in {"absent", "loaded"}
    /\ To(h, "open")
    /\ IF image.at = "absent"
         THEN /\ \E same \in BOOLEAN : image' = [at |-> "loaded", refs |-> 1, same |-> same]
              /\ server' = [NoServer EXCEPT !.at = "load"] /\ stop' = FALSE
         ELSE image' = [image EXCEPT !.refs = @ + 1] /\ UNCHANGED <<server, stop>>
    /\ UNCHANGED <<engine, pipe, torn>>

Openable == pipe.up /\ pipe.host = NoHost

Framed(h, kind) == [seq |-> peer[h].seq + 1, kind |-> kind, fits |-> TRUE]

Asking(h, kind) == peer' = [peer EXCEPT ![h] = [at |-> "wait", seq |-> @.seq + 1, req |-> kind]]

\* CreateFileW finds the instance free, and Hello is sent.
OpenPipe(h) ==
    /\ peer[h].at = "open" /\ Openable /\ peer[h].seq < MaxRequests[h]
    /\ pipe' = [pipe EXCEPT !.host = h, !.open = TRUE, !.toDll = <<Framed(h, "Hello")>>]
    /\ Asking(h, "Hello")
    /\ UNCHANGED <<image, torn>> /\ HostOnly

\* The last attempt before the deadline finds the pipe busy, or missing.
OpenFails(h) ==
    /\ peer[h].at = "open" /\ ~Openable
    /\ To(h, "idle")
    /\ UNCHANGED <<image, pipe, torn>> /\ HostOnly

\* A request of the session: written to the pipe, unless the worker has closed it.
Call(h) ==
    /\ peer[h].at = "ready" /\ peer[h].seq < MaxRequests[h]
    /\ \E kind \in Requests(engine) :
         IF pipe.host = h
           THEN pipe' = [pipe EXCEPT !.toDll = Append(@, Framed(h, kind))] /\ Asking(h, kind)
           ELSE To(h, "broken") /\ UNCHANGED pipe
    /\ UNCHANGED <<image, torn>> /\ HostOnly

\* What a host does after an answer: connect fails on any but Welcome, disconnect()
\* closes the pipe, every other request may be followed by one more.
After(h, kind) ==
    CASE peer[h].req = "Hello" -> IF kind = "Welcome" THEN "ready" ELSE "idle"
      [] peer[h].req = "Disconnect" -> "idle"
      [] OTHER -> "ready"

HungUp(rest) == [rest EXCEPT !.open = FALSE, !.toHost = << >>]

\* A deliberate error: the host gives up on a slow answer, and the answer stays in the pipe.
Received_GivesUp(h) ==
    /\ peer[h].at = "wait" /\ pipe.host = h /\ h \notin torn
    /\ To(h, "ready")
    /\ UNCHANGED <<image, pipe, torn>> /\ HostOnly

\* recv_frame: the prefix, then the body.  An answer that is too long is an error,
\* and its body stays in the pipe, in the frame's place.
Received(h) ==
    /\ peer[h].at = "wait" /\ pipe.host = h /\ pipe.toHost # << >> /\ h \notin torn
    /\ LET reply == Head(pipe.toHost)
           step == After(h, reply.kind)
           rest == IF reply.fits THEN [pipe EXCEPT !.toHost = Tail(@)] ELSE pipe
       IN  /\ pipe' = IF step = "idle" THEN HungUp(rest) ELSE rest
           /\ torn' = IF reply.fits THEN torn ELSE torn \cup {h}
           /\ To(h, step)
    /\ UNCHANGED image /\ HostOnly

\* Once a body is left, the host reads a length from the middle of it.  It is refused;
\* or what it announces is there, and no answer; or it announces more than there is, and
\* read_exact takes it all and goes on waiting.
ReceivedTorn(h) ==
    /\ peer[h].at = "wait" /\ pipe.host = h /\ pipe.toHost # << >> /\ h \in torn
    /\ \E rest \in {pipe, [pipe EXCEPT !.toHost = << >>]} :
         \/ LET step == After(h, "Error")
            IN  /\ To(h, step)
                /\ IF step = "idle" THEN pipe' = HungUp(rest) /\ torn' = torn \ {h}
                                    ELSE pipe' = rest /\ UNCHANGED torn
         \/ pipe' = [rest EXCEPT !.toHost = << >>] /\ UNCHANGED <<peer, torn>>
    /\ UNCHANGED image /\ HostOnly

\* ReadFile fails: the worker has closed its end.
ReceivedBroken(h) ==
    /\ peer[h].at = "wait" /\ pipe.host # h
    /\ To(h, IF peer[h].req = "Hello" THEN "idle" ELSE "broken")
    /\ UNCHANGED <<image, pipe, torn>> /\ HostOnly

\* The session is dropped, by a detach or because the host dies at any point.
Leave(h) ==
    /\ peer[h].at \in {"ready", "broken", "wait"}
    /\ To(h, "idle") /\ torn' = torn \ {h}
    /\ pipe' = IF pipe.host = h THEN HungUp(pipe) ELSE pipe
    /\ UNCHANGED image /\ HostOnly

-----------------------------------------------------------------------------
(* The worker: worker_entry, the pipe loop, serve_client. *)

ServerOnly == UNCHANGED <<engine, image, stop, peer, torn>>

Mapped == image.at \in {"loaded", "detach"}

\* worker_entry finds the engine; SHUTDOWN is looked at once before the loop.
Start ==
    /\ server.at = "load" /\ Mapped
    /\ server' = [server EXCEPT !.at = IF stop THEN "ended" ELSE "create"]
    /\ UNCHANGED pipe /\ ServerOnly

Create ==
    /\ server.at = "create" /\ Mapped
    /\ server' = [server EXCEPT !.at = "created"]
    /\ pipe' = [NoPipe EXCEPT !.up = TRUE]
    /\ ServerOnly

\* ConnectNamedPipe waits for a client.  One that has opened the instance before it
\* is reported as ERROR_PIPE_CONNECTED, in a form the loop does not test for: the
\* instance is closed.
Listen ==
    /\ server.at = "created" /\ Mapped
    /\ IF pipe.host = NoHost
         THEN server' = [server EXCEPT !.at = "listen"] /\ UNCHANGED pipe
         ELSE /\ server' = [server EXCEPT !.at = IF stop THEN "ended" ELSE "create"]
              /\ pipe' = NoPipe
    /\ ServerOnly

Accept ==
    /\ server.at = "listen" /\ Mapped /\ pipe.host # NoHost
    /\ server' = [server EXCEPT !.at = IF stop THEN "ended" ELSE "serve", !.gate = FALSE]
    /\ pipe' = IF stop THEN NoPipe ELSE pipe
    /\ ServerOnly

\* Something that a host has left unread is in the pipe; what is written behind it is
\* one with it, and there may be no room for that.
Behind == pipe.host \in torn /\ pipe.toHost # << >>

Answered(kind, fits) ==
    pipe' = [pipe EXCEPT !.toDll = Tail(@),
                         !.toHost = IF Behind THEN @
                                    ELSE Append(@, [Head(pipe.toDll) EXCEPT !.kind = kind, !.fits = fits])]

\* The first frame must be Hello with the DLL's own version.
Handshake ==
    /\ server.at = "serve" /\ Mapped /\ pipe.toDll # << >> /\ ~server.gate /\ pipe.open
    /\ LET good == Head(pipe.toDll).kind = "Hello" /\ image.same
       IN  /\ server' = [server EXCEPT !.gate = good, !.at = IF good THEN "serve" ELSE "restore"]
           /\ Answered(IF good THEN "Welcome" ELSE "Error", TRUE)
    /\ ServerOnly

ReadFrame ==
    /\ server.at = "serve" /\ Mapped /\ pipe.toDll # << >> /\ server.gate
    /\ server' = [server EXCEPT !.at = "handle"]
    /\ UNCHANGED pipe /\ ServerOnly

ReadEof ==
    /\ server.at = "serve" /\ Mapped /\ ~pipe.open /\ (pipe.toDll = << >> \/ ~server.gate)
    /\ server' = [server EXCEPT !.at = "restore"]
    /\ UNCHANGED pipe /\ ServerOnly

\* handle_request, and the write of its answer: one that does not fit fills the pipe's
\* buffer, and the worker waits in WriteFile for a host that reads.
Answering ==
    /\ server.at = "handle" /\ Mapped
    /\ \E kind \in RepliesTo(engine, Head(pipe.toDll).kind) :
       \E fits \in {TRUE, kind \notin Unbounded} :
         IF pipe.open
           THEN /\ Answered(kind, fits)
                /\ server' = [server EXCEPT !.at = CASE kind = "DisconnectAck" -> "restore"
                                                     [] ~fits -> "write"
                                                     [] OTHER -> "serve"]
           ELSE /\ pipe' = [pipe EXCEPT !.toDll = Tail(@)]
                /\ server' = [server EXCEPT !.at = "restore"]
    /\ ServerOnly

Answer == Answering /\ ~Behind

AnswerBehind == Answering /\ Behind

\* The host has read what did not fit, or is gone.
Written ==
    /\ server.at = "write" /\ Mapped /\ (pipe.toHost = << >> \/ ~pipe.open)
    /\ server' = [server EXCEPT !.at = IF pipe.open THEN "serve" ELSE "restore"]
    /\ UNCHANGED pipe /\ ServerOnly

\* A host that reads on from the middle may take enough of it.
WrittenBehind ==
    /\ server.at = "write" /\ Mapped /\ Behind /\ peer[pipe.host].at = "wait"
    /\ server' = [server EXCEPT !.at = "serve"]
    /\ UNCHANGED pipe /\ ServerOnly

\* A deliberate error: nothing catches the panic, and the worker is gone with the pipe open.
Panics_Unguarded ==
    /\ server.at = "handle" /\ Mapped
    /\ server' = [server EXCEPT !.at = "ended"]
    /\ UNCHANGED pipe /\ ServerOnly

\* A handler panics: serve_client is left (guarded), and the pipe is torn down.
Panics ==
    /\ server.at = "handle" /\ Mapped
    /\ server' = [server EXCEPT !.at = "restore"]
    /\ pipe' = [pipe EXCEPT !.toDll = Tail(@)]
    /\ ServerOnly

\* code_patch::restore_all / ConnState::drop (module CodePatch).
RestoreAll ==
    /\ server.at = "restore" /\ Mapped
    /\ server' = [server EXCEPT !.at = "flush"]
    /\ UNCHANGED pipe /\ ServerOnly

\* FlushFileBuffers returns when the client has read everything or is gone.
Flush ==
    /\ server.at = "flush" /\ Mapped /\ (pipe.toHost = << >> \/ ~pipe.open)
    /\ server' = [server EXCEPT !.at = "create"]
    /\ pipe' = NoPipe
    /\ ServerOnly

-----------------------------------------------------------------------------
(* Injector::eject, DllMain's detach, and the loader. *)

\* FreeLibrary.  The last one runs DllMain: SHUTDOWN, then CancelSynchronousIo, which
\* fails what the worker is blocked in at that moment, and nothing it calls later.
Eject(h) ==
    /\ peer[h].at = "idle" /\ image.at = "loaded"
    /\ IF image.refs > 1
         THEN image' = [image EXCEPT !.refs = @ - 1] /\ UNCHANGED <<stop, server, pipe>>
         ELSE /\ image' = [image EXCEPT !.refs = 0, !.at = "detach"]
              /\ stop' = TRUE
              /\ server' = [server EXCEPT !.at =
                     CASE @ = "listen" -> "ended"
                       [] @ = "serve" /\ pipe.toDll = << >> -> "restore"
                       [] @ = "write" -> "restore"
                       [] @ = "flush" -> "create"
                       [] OTHER -> @]
              /\ pipe' = IF server.at \in {"listen", "flush"} THEN NoPipe ELSE pipe
    /\ UNCHANGED <<engine, peer, torn>>

\* DllMain has waited for the worker, a second at most, and the image is unmapped.
Unmap ==
    /\ image.at = "detach"
    /\ IF server.at \in Inside
         THEN image' = [image EXCEPT !.at = "crashed"]
         ELSE image' = NoImage
    /\ server' = NoServer /\ pipe' = NoPipe
    /\ UNCHANGED <<engine, stop, peer, torn>>

\* The game ends, or has crashed, and is started again.
GameRestarts ==
    /\ image.at # "absent" /\ \A h \in Hosts : peer[h].at \in {"idle", "broken"}
    /\ image' = NoImage /\ server' = NoServer /\ pipe' = NoPipe /\ stop' = FALSE
    /\ UNCHANGED <<engine, peer, torn>>

WorkerStep ==
    Start \/ Create \/ Listen \/ Accept \/ Handshake \/ ReadFrame \/ ReadEof \/ Answer
    \/ Written \/ RestoreAll \/ Flush

PipeNext ==
    \/ \E h \in Hosts :
         \/ CheckLoaded(h) \/ LoadLibrary(h) \/ OpenPipe(h) \/ OpenFails(h) \/ Call(h)
         \/ Received(h) \/ ReceivedTorn(h) \/ ReceivedBroken(h) \/ Leave(h) \/ Eject(h)
    \/ WorkerStep \/ AnswerBehind \/ WrittenBehind \/ Panics \/ Unmap \/ GameRestarts

\* The worker runs, a host reads the answer it waits for, the loader comes to an end.
\* Of a host that is out of step nothing is certain.
PipeFairness ==
    /\ WF_pipeVars(WorkerStep) /\ WF_pipeVars(Unmap)
    /\ \A h \in Hosts : WF_pipeVars(Received(h) \/ ReceivedBroken(h))

PipeSpec == PipeInit /\ [][PipeNext]_pipeVars /\ PipeFairness

-----------------------------------------------------------------------------
(* Properties.                                                              *)

\* The call of a host, in the words of PipeCall, by what is in the pipe: its request, which
\* the worker may have taken up, or the answer.  With neither, or behind a body
\* left unread, nothing will come that answers it.
InStep(h) == pipe.host = h /\ pipe.open /\ h \notin torn

CallOf(h) ==
    LET asked == peer[h].at = "wait" /\ InStep(h)
    IN  CASE peer[h].at # "wait" -> [at |-> "none"]
          [] asked /\ pipe.toHost # << >> ->
                [at |-> "answered", req |-> peer[h].req, reply |-> Head(pipe.toHost).kind]
          [] asked /\ pipe.toHost = << >> /\ pipe.toDll # << >> ->
                [at |-> IF server.at = "handle" THEN "running" ELSE "asked", req |-> peer[h].req]
          [] OTHER -> [at |-> "lost"]

hostCalls == [h \in Hosts |-> CallOf(h)]

C == INSTANCE PipeCall WITH Callers <- Hosts, call <- hostCalls

\* A request is a call: it is taken up at most once, and its caller gets the answer
\* to this very request, an error, or nothing but the end of the connection.
RequestIsCall == C!CallSpec

\* There are no request numbers on the wire: an answer belongs to a request because
\* it is the next frame.  Of a host that has left no body unread, the frames in the
\* pipe are the answer to the request it waits with, and that alone: across
\* reconnects, panics and failed handshakes, and of a kind its client takes.
AnswersOwn ==
    \A h \in Hosts : pipe.host = h /\ pipe.open /\ h \notin torn =>
        \/ pipe.toHost = << >>
        \/ /\ Len(pipe.toHost) = 1 /\ peer[h].at = "wait"
           /\ Head(pipe.toHost).seq = peer[h].seq
           /\ LET kind == Head(pipe.toHost).kind
              IN  \/ kind = "Error"
                  \/ IF peer[h].req = "Hello" THEN kind = "Welcome"
                     ELSE <<peer[h].req, kind>> \in Accepts(engine)

\* send_frame has no timeout: a host that has left no body unread and waits for an answer
\* gets one, or finds the pipe broken, whatever happens to the worker and the game meanwhile.
HostAnswered ==
    \A h \in Hosts : peer[h].at = "wait" /\ h \notin torn ~> peer[h].at # "wait"

\* send_frame is to "Send one `req` and read exactly one response over `pipe`"
\* (transport.rs:215), with no word of a body refused before: every call comes to an end.
SendFrameReturns == \A h \in Hosts : peer[h].at = "wait" ~> peer[h].at # "wait"
=============================================================================
