----------------------------- MODULE MCThreads -----------------------------
(***************************************************************************)
(* The parts that run on threads and tasks of their own and must go on,    *)
(* composed as those of MCParts are: the scripts' runtime, the freeze of a *)
(* property, the pipe with its worker and hosts, and the scripts' console. *)
(***************************************************************************)
EXTENDS LuaRuntime, ReflectionFreeze, PipeSession, LuaConsole

CONSTANTS app, tool_h

VARIABLE part

Threads == {"lua", "reflection", "pipe", "console"}

threadsVars == <<part, luaVars, reflVars, pipeVars, consoleVars>>

\* One host connects again, the other once.
MCMaxRequests == app :> 3 @@ tool_h :> 1

\* Bound: the game's objects that live at once; what it has freed adds to them.
MaxLive == 2

FewLive == Cardinality({o \in Objects : heap'[o].live}) <= MaxLive

\* The others' variables start at one of their initial states.
ThreadsInit ==
    /\ part \in Threads
    /\ LuaInit
    /\ ReflInit /\ (part # "reflection" => shape = "direct")
    /\ PipeInit /\ (part # "pipe" => engine = "ue5")
    /\ ConsoleInit

LuaSteps ==
    /\ part = "lua" /\ LuaNext
    /\ UNCHANGED <<part, reflVars, pipeVars, consoleVars>>

ReflectionSteps ==
    /\ part = "reflection" /\ ReflNext /\ FewLive
    /\ UNCHANGED <<part, luaVars, pipeVars, consoleVars>>

PipeSteps ==
    /\ part = "pipe" /\ PipeNext
    /\ UNCHANGED <<part, luaVars, reflVars, consoleVars>>

ConsoleSteps ==
    /\ part = "console" /\ ConsoleNext
    /\ UNCHANGED <<part, luaVars, reflVars, pipeVars>>

ThreadsNext ==
    \/ LuaSteps
    \/ ReflectionSteps
    \/ PipeSteps
    \/ ConsoleSteps

\* The fairness each part's threads have in its own module.
ThreadsSpec ==
    /\ ThreadsInit /\ [][ThreadsNext]_threadsVars
    /\ LuaFairness /\ ReflFairness /\ PipeFairness /\ ConsoleFairness

\* Every variable of every part keeps its type: the states the code's structs
\* and locals can be in.
ThreadsTypeOK ==
    /\ part \in Threads
    /\ LuaTypeOK
    /\ ReflTypeOK
    /\ PipeTypeOK
    /\ ConsoleTypeOK
=============================================================================
