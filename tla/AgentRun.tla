------------------------------ MODULE AgentRun ------------------------------
(***************************************************************************)
(* What the wave loop relies on when it launches an agent and waits for    *)
(* it: launchAgentSession and waitForWaveCompletion of launcher-runtime.mjs*)
(* seen from launcher.mjs.  An agent is launched any number of times; each *)
(* launch is a session with one executor (the process that edits the code) *)
(* and at most one verdict.                                                *)
(*                                                                         *)
(* The verdict says whether the executor came to its own end or was        *)
(* killed.  Whether it came to a good end it does not say.                 *)
(***************************************************************************)
CONSTANT Sessions

VARIABLES
    exec,      \* executor of each session: "none", "run", or how it ended
    verdict,   \* what the launcher concluded of it: "none", "ok", "bad", "lost"
    void       \* a mishap has happened: nothing is promised from there on

Init ==
    /\ exec = [s \in Sessions |-> "none"]
    /\ verdict = [s \in Sessions |-> "none"]
    /\ void = FALSE

OwnEnds == {"done", "failed"}

(* An executor starts only when no other one is at work on the agent's     *)
(* files, and never for a session that was given up.                       *)
Begin(s) ==
    /\ exec[s] = "none" /\ verdict[s] = "none"
    /\ \A t \in Sessions : exec[t] # "run"
    /\ exec' = [exec EXCEPT ![s] = "run"]
    /\ UNCHANGED verdict

End(s) ==
    /\ exec[s] = "run"
    /\ \E result \in OwnEnds \cup {"killed"} : exec' = [exec EXCEPT ![s] = result]
    /\ UNCHANGED verdict

(* The launcher concludes once, when the executor is no longer at work,    *)
(* and what it concludes is about this executor.                           *)
Judge(s) ==
    /\ verdict[s] = "none" /\ exec[s] # "run"
    /\ \E v \in {"ok", "bad", "lost"} :
          /\ v = "ok" => exec[s] \in OwnEnds
          /\ v = "bad" => exec[s] \notin OwnEnds
          /\ verdict' = [verdict EXCEPT ![s] = v]
    /\ UNCHANGED exec

Work == (\E s \in Sessions : Begin(s) \/ End(s) \/ Judge(s)) /\ UNCHANGED void

Next == Work \/ void'

Spec == Init /\ [][Next]_<<exec, verdict, void>>
=============================================================================
