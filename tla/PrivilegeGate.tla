---------------------------- MODULE PrivilegeGate ----------------------------
(***************************************************************************)
(* What the privileged path of golim promises, without the server: a call  *)
(* runs a binary as root only on consent.  A strict call (always-approve)  *)
(* needs the user's consent in that call; any other call may also rely on  *)
(* consent given to another call or on a binary listed from the beginning. *)
(* A call with a refused question runs nothing from then on.               *)
(***************************************************************************)
EXTENDS Naturals

CONSTANTS
  Calls,      \* tool calls
  Binaries,   \* binaries that can be run as root
  Listed      \* binaries allowed from the beginning

VARIABLES
  mode,      \* per call: not yet made, strict, or relaxed
  consent,   \* <<call, binary>>: the user has agreed within the call
  refused,   \* calls with a refused question
  done       \* <<call, binary>>: executed as root

gate == <<mode, consent, refused, done>>

Init ==
  /\ mode = [c \in Calls |-> "none"]
  /\ consent = {} /\ refused = {} /\ done = {}

Open(c, m) ==
  /\ mode[c] = "none"
  /\ mode' = [mode EXCEPT ![c] = m]
  /\ UNCHANGED <<consent, refused, done>>

Agree(c, bins) ==
  /\ mode[c] # "none" /\ c \notin refused
  /\ consent' = consent \cup ({c} \X bins)
  /\ UNCHANGED <<mode, refused, done>>

\* A question is refused before the call has run anything.
Refuse(c) ==
  /\ mode[c] # "none" /\ \A b \in Binaries : <<c, b>> \notin done
  /\ refused' = refused \cup {c}
  /\ UNCHANGED <<mode, consent, done>>

Allowed(c, b) ==
  \/ <<c, b>> \in consent
  \/ mode[c] = "relaxed" /\ (b \in Listed \/ \E d \in Calls : <<d, b>> \in consent)

Run(c, b) ==
  /\ mode[c] # "none" /\ c \notin refused /\ Allowed(c, b)
  /\ done' = done \cup {<<c, b>>}
  /\ UNCHANGED <<mode, consent, refused>>

Next ==
  \E c \in Calls :
    \/ \E m \in {"strict", "relaxed"} : Open(c, m)
    \/ \E bins \in SUBSET Binaries : Agree(c, bins)
    \/ Refuse(c)
    \/ \E b \in Binaries : Run(c, b)

Spec == Init /\ [][Next]_gate
=============================================================================
