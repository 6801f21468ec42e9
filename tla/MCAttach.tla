------------------------------ MODULE MCAttach ------------------------------
(***************************************************************************)
(* AttachLifecycle for TLC: each execution has one toggler, the UI or the  *)
(* hotkeys, so that one run checks both and tells them apart.              *)
(***************************************************************************)
EXTENDS AttachLifecycle, FiniteSets

CONSTANT MaxPressed    \* bound: the loops at a time, where the hotkeys toggle

VARIABLE by    \* the toggler of this execution, chosen at its start

MCInit == Init /\ by \in Togglers

\* The toggler of another execution takes no step.
OneToggles == \A x \in Togglers \ {by} : toggle'[x].step = "none"

FewLoops == by = "hotkey" => Cardinality(Tasks \ Free') <= MaxPressed

MCNext == Next /\ OneToggles /\ FewLoops /\ UNCHANGED by

\* The fairness of AttachLifecycle, of what the bound lets happen.
MCFairness ==
    /\ \A c \in Calls :
         WF_vars(CallStep(c) /\ FewLoops) /\ WF_vars(Notice(c)) /\ WF_vars(RetryApplies(c))
    /\ \A d \in Detachers : WF_vars(DetachStep(d))
    /\ \A k \in Tasks : WF_vars(LoopEnds(k))
    /\ \A x \in Togglers : WF_vars(ToggleStep(x) /\ FewLoops)

MCSpec == MCInit /\ [][MCNext]_<<vars, by>> /\ MCFairness

\* do_detach's "closes the pipe" (DetachClosesPipe) with the clicks of the UI,
\* which the main thread takes one after the other: every holder of a session
\* that is over lets go of it.  With the hotkeys it is not so (run AttachHotkey).
ClicksClosePipe ==
    \A s \in Calls :
        by = "ui" /\ call[s] \in {"done", "panicked"} /\ attached # s
            ~> ~Held(s) \/ ~Alive(s)
=============================================================================
