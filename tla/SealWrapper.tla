------------------------------- MODULE SealWrapper -------------------------------
(***************************************************************************)
(* What a seal wrapper promises OpenBao: at most one backend is in force, it *)
(* runs under the wrapper's settings, it is replaced only after it was       *)
(* closed, and a call is served to its end by the backend that was in force  *)
(* when it began.                                                            *)
(***************************************************************************)
CONSTANTS Callers, Configs, Ids, None

VARIABLES
    current,    \* the backend in force, [id, cfg], or None
    serving,    \* the backend that serves each caller, or None
    settings    \* the configuration of the wrapper, or None

vars == <<current, serving, settings>>

Init ==
    /\ current = None
    /\ serving = [c \in Callers |-> None]
    /\ settings = None

\* A backend that serves nobody comes into force, under new settings or those kept.
Open(b) ==
    /\ current = None
    /\ b \notin {serving[c] : c \in Callers}
    /\ current' = b
    /\ settings' = b.cfg
    /\ UNCHANGED serving

Close ==
    /\ current # None
    /\ current' = None
    /\ UNCHANGED <<serving, settings>>

Begin(c) ==
    /\ serving[c] = None /\ current # None
    /\ serving' = [serving EXCEPT ![c] = current]
    /\ UNCHANGED <<current, settings>>

Return(c) ==
    /\ serving' = [serving EXCEPT ![c] = None]
    /\ UNCHANGED <<current, settings>>

\* The process ends and starts again without any of its state.
Restart ==
    /\ current' = None
    /\ serving' = [c \in Callers |-> None]
    /\ settings' = None

Next ==
    \/ \E b \in [id : Ids, cfg : Configs] : Open(b)
    \/ Close
    \/ \E c \in Callers : Begin(c) \/ Return(c)
    \/ Restart

Spec == Init /\ [][Next]_vars
================================================================================
