------------------------------- MODULE Drain -------------------------------
(***************************************************************************)
(* What an orderly shutdown promises, for the programs of this repository  *)
(* that keep devices.  Each owner, a process or a thread, takes things on  *)
(* while it runs; once its shutdown has begun it takes on nothing more,    *)
(* gives back what it holds in any order, and stops only with empty hands. *)
(* An abort is the one way around that.                                    *)
(***************************************************************************)
CONSTANTS
    Owner,          \* who holds things
    Thing           \* what can be held: devices, contexts

VARIABLES
    phase,          \* per owner: "running", "draining", "stopped" or "aborted"
    held            \* per owner: the things held now

Init == \A o \in Owner : phase[o] = "running" /\ held[o] = {}

Same(o) == phase'[o] = phase[o] /\ held'[o] = held[o]

Take(o) ==
    /\ phase[o] = "running" /\ phase'[o] = phase[o]
    /\ held'[o] \in SUBSET Thing

Close(o) ==
    /\ phase[o] = "running" /\ phase'[o] = "draining"
    /\ held'[o] \subseteq held[o]

Give(o) ==
    /\ phase[o] \in {"draining", "aborted"} /\ phase'[o] = phase[o]
    /\ held'[o] \subseteq held[o]

Stop(o) ==
    /\ phase[o] = "draining" /\ phase'[o] = "stopped"
    /\ held[o] = {} /\ held'[o] = {}

Abort(o) ==
    /\ phase[o] \in {"running", "draining"} /\ phase'[o] = "aborted"
    /\ held'[o] \subseteq held[o]

Next ==
    \A o \in Owner :
        Same(o) \/ Take(o) \/ Close(o) \/ Give(o) \/ Stop(o) \/ Abort(o)

Spec == Init /\ [][Next]_<<phase, held>>
=============================================================================
