---------------------------- MODULE RemoteCalls ----------------------------
(***************************************************************************)
(* What an evaluation promises its caller, whatever carries it: the        *)
(* closure runs at most once, in the window of the vault it was meant for; *)
(* an answer is the answer of that very closure; a failure promises        *)
(* nothing about the closure, which may run before it, after it or never;  *)
(* an answer with nothing in it promises no more than that the closure     *)
(* will not run any more, if it has run at all.                            *)
(***************************************************************************)
CONSTANTS
  Calls,    (* the evaluations *)
  VaultOf,  (* the vault each is meant for *)
  Nowhere   (* where a closure has run that has not run *)

VARIABLES
  state,  (* state[c]: "idle", "open", "answered", "blank" or "failed" *)
  ranIn   (* ranIn[c]: the vault in whose window the closure of c has run *)

Init ==
  /\ state = [c \in Calls |-> "idle"]
  /\ ranIn = [c \in Calls |-> Nowhere]

Open(c) ==
  /\ state[c] = "idle"
  /\ state' = [state EXCEPT ![c] = "open"]
  /\ UNCHANGED ranIn

Run(c) ==
  /\ state[c] \in {"open", "failed"}
  /\ ranIn[c] = Nowhere
  /\ ranIn' = [ranIn EXCEPT ![c] = VaultOf[c]]
  /\ UNCHANGED state

Answer(c) ==
  /\ state[c] = "open"
  /\ ranIn[c] = VaultOf[c]
  /\ state' = [state EXCEPT ![c] = "answered"]
  /\ UNCHANGED ranIn

Blank(c) ==
  /\ state[c] = "open"
  /\ state' = [state EXCEPT ![c] = "blank"]
  /\ UNCHANGED ranIn

Fail(c) ==
  /\ state[c] = "open"
  /\ state' = [state EXCEPT ![c] = "failed"]
  /\ UNCHANGED ranIn

Next == \E c \in Calls : Open(c) \/ Run(c) \/ Answer(c) \/ Blank(c) \/ Fail(c)

Spec == Init /\ [][Next]_<<state, ranIn>>
=============================================================================
