------------------------------- MODULE Store --------------------------------
(***************************************************************************)
(* The op store (dash-router-core/src/storage.rs): OpsMap and the two      *)
(* machines that wrap it.  An op is a header and an optional payload, so a *)
(* store, and equally the body of a Have on the wire, is the set of cells  *)
(* it has a header for and the subset it also has the payload of.          *)
(***************************************************************************)
EXTENDS Interest, FiniteSets

CONSTANT Cap    \* RelayStoreMachine::cap, in units

ASSUME CapAssumption == Cap \in Nat

Ops == {o \in [cells : SUBSET Cell, pay : SUBSET Cell] : o.pay \subseteq o.cells}

NoOps == [cells |-> {}, pay |-> {}]

\* Mistake: the incoming copy replaces the stored one.
IngestOverwriting(s, o) == [cells |-> s.cells \cup o.cells, pay |-> (s.pay \ o.cells) \cup o.pay]

\* Storage::ingest of every op of o: never downgrades a payload already held.
Ingest(s, o) == [cells |-> s.cells \cup o.cells, pay |-> s.pay \cup o.pay]

\* Storage::fetch, and the part of a message that names the cells of R.
Fetch(s, R) == [cells |-> s.cells \cap R, pay |-> s.pay \cap R]

\* Mistake: the payload of an evicted op stays behind.
EvictHeaders(s, R) == [s EXCEPT !.cells = @ \ R]

\* EvictableStorage::evict drops whole ops, evict_payloads keeps the headers.
Evict(s, R) == [cells |-> s.cells \ R, pay |-> s.pay \ R]

EvictPayloads(s, R) == [s EXCEPT !.pay = @ \ R]

\* Two units for an op with a payload, one for a header alone.
Usage(s) == Cardinality(s.cells) + Cardinality(s.pay)

\* Mistake: anything fits as long as the relay is not full.
FitsIfNotFull(s, o) == Usage(s) < Cap

\* The cap check of the relay's Ingest: usage plus ingest_delta.  The delta
\* of an op is what ingesting it adds to the usage.
Fits(s, o) == Usage(Ingest(s, o)) <= Cap

=============================================================================
