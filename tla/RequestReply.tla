---------------------------- MODULE RequestReply ----------------------------
(***************************************************************************)
(* What the client library promises to the code that calls it, with no     *)
(* thread, no table and no network: a call that was issued is answered at  *)
(* most once, by the reply that belongs to it, and nothing is answered     *)
(* once the handle is closed (LIB_API_SPEC.md, "asynchronous flow model",  *)
(* and legacy_agent_close).  IpcClient is shown to implement it.           *)
(***************************************************************************)
EXTENDS Naturals

CONSTANT Calls      \* the requests an application may issue, a set of numbers

VARIABLES
  open,             \* the handle may be used
  issued,           \* calls the application has started
  answer            \* answer[c]: the call whose reply c's callback was given, 0: none yet

absVars == <<open, issued, answer>>

AbsInit ==
  /\ open   = TRUE
  /\ issued = {}
  /\ answer = [c \in Calls |-> 0]

Issue(c) ==
  /\ open
  /\ c \notin issued
  /\ issued' = issued \cup {c}
  /\ UNCHANGED <<open, answer>>

\* The callback of c runs, once, with the reply that belongs to c.
Answer(c) ==
  /\ open
  /\ c \in issued
  /\ answer[c] = 0
  /\ answer' = [answer EXCEPT ![c] = c]
  /\ UNCHANGED <<open, issued>>

CloseHandle ==
  /\ open
  /\ open' = FALSE
  /\ UNCHANGED <<issued, answer>>

AbsNext == CloseHandle \/ \E c \in Calls : Issue(c) \/ Answer(c)

AbsSpec == AbsInit /\ [][AbsNext]_absVars
=============================================================================
