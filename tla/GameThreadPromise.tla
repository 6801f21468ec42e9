------------------------- MODULE GameThreadPromise -------------------------
(***************************************************************************)
(* What running an engine call on the game's own thread promises to its    *)
(* caller (GtOutcome in crates/batman-lod-dll/src/gthread.rs, the answer   *)
(* of run_on_game_thread in crates/glacier-007-dll/src/gthread.rs): the    *)
(* call is executed at most once and only while its caller waits, "ran"    *)
(* comes with the answer of that very execution, and "timeout" means that  *)
(* it was not executed and never will be.                                  *)
(***************************************************************************)
CONSTANT Jobs   \* the calls ever made

VARIABLE state  \* "new", "pending", "executed", "ran" or "timeout"

PromiseInit == state = [j \in Jobs |-> "new"]

Move(j, from, to) == state[j] = from /\ state' = [state EXCEPT ![j] = to]

Call(j) == Move(j, "new", "pending")
Execute(j) == Move(j, "pending", "executed")
Ran(j) == Move(j, "executed", "ran")
Timeout(j) == Move(j, "pending", "timeout")

PromiseNext == \E j \in Jobs : Call(j) \/ Execute(j) \/ Ran(j) \/ Timeout(j)

Promise == PromiseInit /\ [][PromiseNext]_state
=============================================================================
