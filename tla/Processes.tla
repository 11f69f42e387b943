----------------------------- MODULE Processes -----------------------------
(***************************************************************************)
(* The life of an API process, as main of cmd/api/main.go leads it: boot,  *)
(* serve, drain for a bounded time after SIGTERM, exit.  What boot does is *)
(* left to the modules that extend this one, and so is what a request does *)
(* between Accept and Answer.                                              *)
(***************************************************************************)
EXTENDS Naturals

CONSTANTS
    Replicas,  \* the processes
    Clients,   \* each has at most one request in flight
    MaxBoots,  \* bound: how often a process is started, over all replicas
    Nothing    \* nil

ASSUME ProcessesAssumption == MaxBoots \in Nat /\ Nothing \notin Replicas

VARIABLES
    phase,  \* where main is; "exited" after status 0, "down" after any other end
    boots,  \* how often a process was started
    on      \* the process that handles the client's request, Nothing if none is in flight

lifecycle == <<phase, boots, on>>

Ended     == {"down", "exited"}
Accepting == {"started", "serving"}
Up        == Accepting \cup {"draining"}
Phases    == Ended \cup {"booting"} \cup Up

GoesTo(p, step) == phase' = [phase EXCEPT ![p] = step]
InFlight(p) == {c \in Clients : on[c] = p}

InitProcesses ==
    /\ phase = [p \in Replicas |-> "down"]
    /\ boots = 0
    /\ on = [c \in Clients |-> Nothing]

-----------------------------------------------------------------------------
\* Started for the first time, by the restart policy or by a deployment.
Start(p) ==
    /\ phase[p] \in Ended /\ boots < MaxBoots
    /\ GoesTo(p, "booting")
    /\ boots' = boots + 1
    /\ UNCHANGED on

\* The goroutine of server.Start listens; signal.Notify comes after.
Listen(p) ==
    /\ phase[p] = "booting"
    /\ GoesTo(p, "started")
    /\ UNCHANGED <<boots, on>>

Notify(p) ==
    /\ phase[p] = "started"
    /\ GoesTo(p, "serving")
    /\ UNCHANGED <<boots, on>>

Accept(c, p) ==
    /\ phase[p] \in Accepting /\ on[c] = Nothing
    /\ on' = [on EXCEPT ![c] = p]
    /\ UNCHANGED <<phase, boots>>

Answer(c) ==
    /\ on[c] # Nothing
    /\ on' = [on EXCEPT ![c] = Nothing]
    /\ UNCHANGED <<phase, boots>>

\* The process is gone, and with it the requests it was handling.
End(p, how) ==
    /\ GoesTo(p, how)
    /\ on' = [c \in Clients |-> IF on[c] = p THEN Nothing ELSE on[c]]
    /\ UNCHANGED boots

\* log.Fatal: no database, no secret in production, the port is taken.
Fatal(p) == phase[p] \in {"booting", "started", "serving"} /\ End(p, "down")

Crash(p) == phase[p] \notin Ended /\ End(p, "down")

\* SIGTERM.  Nobody catches it before signal.Notify.
Terminated(p) == phase[p] \in {"booting", "started"} /\ End(p, "down")

Shutdown(p) ==
    /\ phase[p] = "serving"
    /\ GoesTo(p, "draining")
    /\ UNCHANGED <<boots, on>>

Drained(p) == phase[p] = "draining" /\ InFlight(p) = {} /\ End(p, "exited")

\* Slip (mutant): context.Background() in place of the timeout.
DeadlineNever(p) == FALSE /\ End(p, "down")

\* shutdownTimeout is over: server.Shutdown returns an error.
Deadline(p) == phase[p] = "draining" /\ InFlight(p) # {} /\ End(p, "down")

Stops(p) == Fatal(p) \/ Crash(p) \/ Terminated(p) \/ Drained(p) \/ Deadline(p)

-----------------------------------------------------------------------------
ProcessesTypeOK ==
    /\ phase \in [Replicas -> Phases]
    /\ boots \in 0 .. MaxBoots
    /\ on \in [Clients -> Replicas \cup {Nothing}]
    /\ \A c \in Clients : on[c] # Nothing => phase[on[c]] \in Up

(***************************************************************************)
(* main.go:28 and :71: draining is bounded.  A process that was told to    *)
(* stop ends, whatever the requests it still handles do.                   *)
(***************************************************************************)
ShutdownEnds == \A p \in Replicas : phase[p] = "draining" ~> phase[p] \in Ended
=============================================================================
