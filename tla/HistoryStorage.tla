--------------------------- MODULE HistoryStorage ---------------------------
(***************************************************************************)
(* SISD::HistoryStorage: a counter in the server process that hands out    *)
(* handles, and a hash in Redis that keeps one record per handle.  Redis   *)
(* is another process: it outlives the server, the counter does not.       *)
(***************************************************************************)
EXTENDS Naturals, Maps

CONSTANT HandleRange   \* how many values a JobHandle has (2^32 for uint32_t)

ASSUME HandleAssumption == HandleRange \in Nat \ {0}

VARIABLES
  m_ctr,    \* HistoryStorage::Impl::m_ctr
  history   \* the Redis hash "history": a function from handles to records

storageVars == <<m_ctr, history>>

StorageInit ==
  /\ m_ctr = 0
  /\ history = <<>>

\* Mutants: the counter stands still, or never wraps.
generateHandle_stuck == UNCHANGED m_ctr
generateHandle_wide == m_ctr' = m_ctr + 1

\* HistoryStorage::generateHandle, which returns m_ctr and counts it up.
generateHandle == m_ctr' = (m_ctr + 1) % HandleRange

\* Mutant: nothing is written.
save_lost(handle, json) == UNCHANGED history

\* HistoryStorage::save: HSET adds the field, or replaces its value.
save(handle, json) == history' = Assign(history, handle, json)

\* Mutant: one record only.
getAll_one == [h \in DOMAIN history \cap {0} |-> history[h]]

\* HistoryStorage::getAll
getAll == history

\* A new server process: HistoryStorage::Impl::Impl, on the same Redis.
StorageRestart ==
  /\ m_ctr' = 0
  /\ UNCHANGED history
=============================================================================
