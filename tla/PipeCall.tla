------------------------------ MODULE PipeCall ------------------------------
(***************************************************************************)
(* What a session with the DLL promises to whoever calls it: the request   *)
(* and the answer of PipeHandle's send_frame and recv_frame                *)
(* (crates/host-common/src/transport.rs) and of the typed clients of       *)
(* ue5-host and glacier-host, as one call.  The worker takes a request up  *)
(* at most once; it is answered at most once, with something the client    *)
(* takes for an answer to this very request; and an answer stays until its *)
(* caller has it.  A call may be lost: then it is never answered, and ends *)
(* with an error.                                                          *)
(***************************************************************************)
EXTENDS PipeProtocol

CONSTANT Callers

VARIABLES engine, call  \* the call of each host, if it makes one

callVars == <<engine, call>>

NoCall == [at |-> "none"]
Lost == [at |-> "lost"]
Asked(kind) == [at |-> "asked", req |-> kind]
Running(kind) == [at |-> "running", req |-> kind]
Answer(kind, reply) == [at |-> "answered", req |-> kind, reply |-> reply]

Answers(kind) ==
    {"Error"} \cup (IF kind = "Hello" THEN {"Welcome"}
                    ELSE {reply \in Kinds : <<kind, reply>> \in Accepts(engine)})

CallInit == engine \in Engines /\ call = [h \in Callers |-> NoCall]

Becomes(h, new) == call' = [call EXCEPT ![h] = new]

\* A request is sent; in vain, if the stream has broken or is out of step.
Ask(h) ==
    /\ call[h] = NoCall
    /\ Becomes(h, Lost) \/ \E kind \in Requests(engine) \cup {"Hello"} : Becomes(h, Asked(kind))

\* The worker takes it up.
Run(h) == \E kind \in Requests(engine) : call[h] = Asked(kind) /\ Becomes(h, Running(kind))

\* The handshake is answered at once, a request by its handler.
Reply(h) ==
    \E kind \in Kinds :
        /\ call[h] = IF kind = "Hello" THEN Asked(kind) ELSE Running(kind)
        /\ \E reply \in Answers(kind) : Becomes(h, Answer(kind, reply))

Lose(h) == call[h] # NoCall /\ Becomes(h, Lost)

\* The caller has its answer or its error, or has gone.
End(h) == call[h] # NoCall /\ Becomes(h, NoCall)

CallNext ==
    /\ \E h \in Callers : Ask(h) \/ Run(h) \/ Reply(h) \/ Lose(h) \/ End(h)
    /\ UNCHANGED engine

CallSpec == CallInit /\ [][CallNext]_callVars
=============================================================================
