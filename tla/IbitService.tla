----------------------------- MODULE IbitService -----------------------------
(***************************************************************************)
(* What DemoApp promises of an initiated BIT: one request at a time is in  *)
(* progress; it ends with a result that carries its own reference number,  *)
(* or is abandoned when the scenario is stopped; no request is answered    *)
(* twice.                                                                  *)
(***************************************************************************)
EXTENDS Naturals

CONSTANT Refs      \* reference numbers of requests, each used once; Nobody is none of them

Nobody == 0        \* no request

VARIABLES
  busy,            \* the request in progress
  taken,           \* requests that were accepted
  done             \* reference numbers of the results published

ibitVars == <<busy, taken, done>>

IbitInit == busy = Nobody /\ taken = {} /\ done = {}

Accept(r) ==
  /\ busy = Nobody /\ r \notin taken
  /\ busy' = r /\ taken' = taken \cup {r}
  /\ UNCHANGED done

Answer ==
  /\ busy # Nobody
  /\ done' = done \cup {busy} /\ busy' = Nobody
  /\ UNCHANGED taken

Abandon ==
  /\ busy # Nobody
  /\ busy' = Nobody
  /\ UNCHANGED <<taken, done>>

IbitNext == Answer \/ Abandon \/ \E r \in Refs : Accept(r)

IbitSpec == IbitInit /\ [][IbitNext]_ibitVars
=============================================================================
