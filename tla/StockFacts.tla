----------------------------- MODULE StockFacts -----------------------------
(* Value Line documents and SEC filings of one stock, which share its lock. *)
EXTENDS ParsedFacts, SecLineage

ASSUME SessionsDiffer == Users \cap Clis = {}

stockVars == <<factVars, lineageVars, holder>>

StockInit == FactsInit /\ LineageInit /\ holder = Nobody

StockNext ==
    \/ FactsNext /\ UNCHANGED lineageVars
    \/ LineageNext /\ UNCHANGED factVars

StockSpec == StockInit /\ [][StockNext]_stockVars

\* Every variable has its type, and the lock is held by who is at a step under it.
StockTypeOK == FactsTypeOK /\ LineageTypeOK
=============================================================================
