------------------------------ MODULE Plugins ------------------------------
(* The two plugins of the agent that run a helper's tasks: one by an adapter *)
(* and its requests (Adapters), one by what it types into windows (Windows). *)
EXTENDS Adapters, Windows

\* A task is put to an adapter once, over all polls, reloads and restarts, and a
\* prompt is typed once, as one line of the task's window.
PromptedOnce == AskedOnce /\ PromptsAreWhole /\ TypedOnce
=============================================================================
